---- MODULE Spec2Model ----
(***************************************************************************)
(* Model of the slp-parser web application: the file picker (FileUpload),  *)
(* the batch loops of the page (handleFileUpload, handleLoadSampleData),   *)
(* and the API handlers (parse-replay, sample-data).                       *)
(*                                                                         *)
(* The source tree holds more than one revision of several units (two      *)
(* FileUpload components, two parse-replay handlers, two pages).  Each     *)
(* revision is modelled; a *Version variable fixed by Init says which one  *)
(* a build runs.                                                           *)
(***************************************************************************)
EXTENDS Integers, Sequences, FiniteSets, TLC

\* ------------------------------------------------------------------------
\* Strings.  A file name is a sequence of one-character strings, so that
\* String.prototype.endsWith is computed and not assumed.
\* ------------------------------------------------------------------------
ExtSlp == <<".", "s", "l", "p">>
ExtZip == <<".", "z", "i", "p">>

NameASlp == <<"a">> \o ExtSlp
NameBSlp == <<"b">> \o ExtSlp
NameCSlp == <<"c">> \o ExtSlp
NameUpperSlp == <<"d", ".", "S", "L", "P">>
NameTxt == <<"n", ".", "t", "x", "t">>
NameSlpTxt == <<"e">> \o ExtSlp \o <<".", "t", "x", "t">>
NameZip == <<"z">> \o ExtZip
NameBare == <<"s", "l", "p">>

\* s.endsWith(suffix)
EndsWith(s, suffix) ==
  /\ Len(s) >= Len(suffix)
  /\ SubSeq(s, Len(s) - Len(suffix) + 1, Len(s)) = suffix

\* array.slice(0, n)
Slice(s, n) == SubSeq(s, 1, IF Len(s) < n THEN Len(s) ELSE n)

\* array.filter(pred) for the predicates used in the program
FilterByExt(files, ext) == SelectSeq(files, LAMBDA f : EndsWith(f.name, ext))

\* ------------------------------------------------------------------------
\* Replays and file contents
\* ------------------------------------------------------------------------
\* What a replay decodes to.  The decoding itself is the external library's.
\* metadata.players holds the players' connect codes; GameNoMeta is a replay
\* recorded without metadata (getMetadata() gives no players).
Game1 == [metadata |-> [players |-> <<"AAA#1", "BBB#2">>], settings |-> "s1", stats |-> "t1"]
Game2 == [metadata |-> [players |-> <<"CCC#3", "BBB#2">>], settings |-> "s2", stats |-> "t2"]
GameNoMeta == [metadata |-> [players |-> <<>>], settings |-> "s3", stats |-> "t3"]

\* File contents: a replay the library can decode, bytes it cannot decode,
\* or a zip archive with its entries in archive order.
SlpData(g) == [kind |-> "slp", game |-> g, zipEntries |-> <<>>]
JunkData == [kind |-> "junk", game |-> Game1, zipEntries |-> <<>>]
ZipData(es) == [kind |-> "zip", game |-> Game1, zipEntries |-> es]
NoData == [kind |-> "none", game |-> Game1, zipEntries |-> <<>>]

Entry(n, d) == [filename |-> n, data |-> d]

ZipContents ==
  { ZipData(<<>>),
    ZipData(<<Entry(NameASlp, SlpData(Game1))>>),
    ZipData(<<Entry(NameASlp, JunkData), Entry(NameTxt, SlpData(Game1)),
              Entry(NameBSlp, SlpData(Game2))>>),
    ZipData(<<Entry(NameASlp, SlpData(Game1)), Entry(NameUpperSlp, SlpData(Game2)),
              Entry(NameASlp, SlpData(Game2))>>),
    ZipData(<<Entry(NameASlp, SlpData(GameNoMeta))>>) }

Contents == {SlpData(Game1), JunkData} \cup ZipContents

\* ------------------------------------------------------------------------
\* Bounds
\* ------------------------------------------------------------------------
MaxPickerEvents == 3
BigLen == 99
MaxSampleRequests == 1
MaxFaults == 2
MaxBatch == 2
MaxStarts == 2
MaxReplays == 2
MaxData == 3

\* ------------------------------------------------------------------------
\* File picker (FileUpload component)
\* ------------------------------------------------------------------------
MAX_FILES == 100

PickerVersions == {"uncapped", "capped"}

\* A browser File object: its name, its identity, its bytes and their
\* number.
MkFile(n, i, c) == [name |-> n, id |-> i, content |-> c, size |-> 1]

BigList == [i \in 1..BigLen |-> MkFile(NameASlp, 100 + i, SlpData(Game1))]

\* The FileLists a drop or a file selection can carry.
FileLists ==
  { <<>>,
    <<MkFile(NameTxt, 1, JunkData)>>,
    <<MkFile(NameASlp, 2, SlpData(Game1))>>,
    <<MkFile(NameBSlp, 3, JunkData), MkFile(NameUpperSlp, 4, SlpData(Game1)),
      MkFile(NameCSlp, 5, SlpData(Game2)), MkFile(NameSlpTxt, 6, SlpData(Game1))>>,
    <<MkFile(NameZip, 7, ZipData(<<>>)), MkFile(NameBare, 8, SlpData(Game2))>>,
    BigList }

AlertOnlySlp == "Please upload .slp files only"
AlertMax == "You can upload a maximum of 100 files. Only the first 100 will be used."

VARIABLES pickerVersion, selectedFiles, lastAlert, pickerEvents, lastPick

pickerVars == <<pickerVersion, selectedFiles, lastAlert, pickerEvents, lastPick>>

\* Upload endpoint (pages/api/parse-replay) and its filesystem
VARIABLES handlerVersion, appEnv, req, hpc, upFiles, fsys, entries, results,
          tempPath, responses, resolved, srvLog, reqCount, faultsLeft

srvVars == <<handlerVersion, appEnv, req, hpc, upFiles, fsys, entries, results,
             tempPath, responses, resolved, srvLog, reqCount, faultsLeft>>

\* Sample-data listing endpoint (pages/api/sample-data)
\* sdReads records, per request, what fs.readdir did.
VARIABLES sdResponses, sdReads

sdVars == <<sdResponses, sdReads>>

\* The page (pages/index): its React state, and the locals and position of
\* the batch in progress.  sent, received and lastBatch record what the
\* latest batch did.
VARIABLES pageVersion, replayDataList, loading, error, selectedPlayer, progress,
          bpc, bKind, bFiles, bIdx, newReplayDataList, successCount, errorFiles,
          sent, received, inFlight, lastBatch, batches

pageVars == <<pageVersion, replayDataList, loading, error, selectedPlayer, progress,
              bpc, bKind, bFiles, bIdx, newReplayDataList, successCount, errorFiles,
              sent, received, inFlight, lastBatch, batches>>

\* Two requests in the zip revision's handler at once, on one filesystem.
\* cFs maps a path to its data and to the request that wrote it; running is
\* the request whose callback holds the thread (0: none); cForeign records
\* every file operation of a request on a file another request wrote.
VARIABLES cpc, cUpload, cEntries, cTemp, cResults, cResponses, cFs, running,
          cForeign

concVars == <<cpc, cUpload, cEntries, cTemp, cResults, cResponses, cFs, running,
              cForeign>>

\* The statistics components: their props (aggList is replayDataList,
\* aggSelected is selectedPlayer), MatchupAnalysis's selectedCharacter, the
\* summary's axes, and what each useEffect last computed.
VARIABLES aggList, aggSelected, aggCharacter, aggAxes, cbStats, muStats, sumStats

aggVars == <<aggList, aggSelected, aggCharacter, aggAxes, cbStats, muStats, sumStats>>

\* The variables the picker, the single-request endpoint and the page leave
\* alone.
\* ReplayDataSummary's helpers applied to a list of numbers: medData is the
\* caller's array, medOut what the last call of calculateMedian left.
VARIABLES medData, medOut

medVars == <<medData, medOut>>

otherVars == <<concVars, aggVars, medVars>>

\* validFiles = Array.from(files).filter(file => file.name.endsWith(".slp"))
ValidFilesNoFilter(files) == files

ValidFiles(files) == FilterByExt(files, ExtSlp)

\* The updater passed to setSelectedFiles, by revision.
Combine(version, prevFiles, validFiles) ==
  IF version = "capped"
  THEN Slice(prevFiles \o validFiles, MAX_FILES)
  ELSE prevFiles \o validFiles

\* handleDrop and handleFileChange differ only in resetting the input
\* element, which is not state of the model; op records which one ran.
\* isNull stands for e.target.files === null (no FileList at all).
AddFiles(op, isNull, files) ==
  /\ pickerEvents < MaxPickerEvents
  /\ pickerEvents' = pickerEvents + 1
  /\ lastPick' = [op |-> op, isNull |-> isNull, files |-> files,
                  prev |-> selectedFiles]
  /\ IF isNull
     THEN UNCHANGED <<selectedFiles, lastAlert>>
     ELSE LET validFiles == ValidFiles(files) IN
          IF Len(validFiles) > 0
          THEN /\ selectedFiles' = Combine(pickerVersion, selectedFiles, validFiles)
               /\ lastAlert' =
                    IF pickerVersion = "capped"
                       /\ Len(selectedFiles \o validFiles) > MAX_FILES
                    THEN AlertMax ELSE lastAlert
          ELSE /\ lastAlert' = AlertOnlySlp
               /\ UNCHANGED selectedFiles
  /\ UNCHANGED <<pickerVersion, srvVars, sdVars, pageVars>>

handleDrop == \E files \in FileLists : AddFiles("drop", FALSE, files)

handleFileChange ==
  \/ \E files \in FileLists : AddFiles("change", FALSE, files)
  \/ AddFiles("change", TRUE, <<>>)

\* The "Clear Selection" button, rendered by the capped revision only and
\* only while files are selected.
ClearSelection ==
  /\ pickerVersion = "capped"
  /\ Len(selectedFiles) > 0
  /\ pickerEvents < MaxPickerEvents
  /\ pickerEvents' = pickerEvents + 1
  /\ selectedFiles' = <<>>
  /\ lastPick' = [op |-> "clear", isNull |-> FALSE, files |-> <<>>,
                  prev |-> selectedFiles]
  /\ UNCHANGED <<pickerVersion, lastAlert, srvVars, sdVars, pageVars>>


\* ------------------------------------------------------------------------
\* Upload endpoint: pages/api/parse-replay
\* ------------------------------------------------------------------------
HandlerVersions == {"slp", "zip"}

\* maxFileSize: 10 * 1024 * 1024
MaxFileSizeNone == 1024 * 1024 * 1024

MaxFileSize == 10 * 1024 * 1024

\* originalFilename; the empty name stands for a missing (null or "") one.
NoName == <<>>
UploadNames == {NoName, NameASlp, NameZip, NameTxt, NameUpperSlp}

UploadSizes == {1, 10485760, 10485761}

Upload(n, sz, c) == [originalFilename |-> n, size |-> sz, content |-> c]

Uploads == {Upload(n, sz, c) : n \in UploadNames, sz \in UploadSizes, c \in Contents}

\* The replayFile parts of a multipart body: none, one, or two.
ReplayFileFields ==
  {<<>>} \cup {<<u>> : u \in Uploads}
         \cup {<<Upload(NameZip, 1, ZipData(<<>>)), u>> : u \in {Upload(NameTxt, 1, JunkData)}}

Requests ==
  [method : {"GET", "POST"}, malformed : BOOLEAN, replayFile : ReplayFileFields]

NoReq == [method |-> "none", malformed |-> FALSE, replayFile |-> <<>>]

\* Paths.  formidable stores the i-th uploaded part of the n-th request
\* under a fresh name (file.filepath); the handler derives the per-entry
\* path from the entry name.
UploadPath(n, i) == [dir |-> "upload", name |-> <<"u", "p", ToString(n), "_", ToString(i)>>]

\* path.join(process.env.APP_ENV === "development" ? process.cwd() : "/tmp",
\*           "tmp_" + filename)
TempPath(env, filename) ==
  [dir |-> IF env = "development" THEN "cwd" ELSE "/tmp",
   name |-> <<"t", "m", "p", "_">> \o filename]

NoPath == [dir |-> "none", name |-> <<>>]

\* Response bodies, as the JSON objects the handlers send.
MsgBody(m) == [message |-> m]

Respond(status, body) == <<[status |-> status, body |-> body]>>

Ev(e, p) == [ev |-> e, path |-> p]

\* parseSlippiReplay(filePath): reads the file at filePath; returns
\* {metadata, settings, stats} or throws (the file is not a replay, or the
\* read itself fails).
ParseOk(fs, p) == p \in DOMAIN fs /\ fs[p].kind = "slp"

parseSlippiReplay(fs, p) ==
  [metadata |-> fs[p].game.metadata,
   settings |-> fs[p].game.settings,
   stats |-> fs[p].game.stats]

\* unzipFile(buffer): fflate's unzipSync builds an object keyed by entry
\* name, so a repeated name keeps its first position and its last data.
\* Object.entries then yields the keys in insertion order.
RECURSIVE PutEntry(_, _)
PutEntry(obj, e) ==
  IF obj = <<>> THEN <<e>>
  ELSE IF Head(obj).filename = e.filename
       THEN <<e>> \o Tail(obj)
       ELSE <<Head(obj)>> \o PutEntry(Tail(obj), e)

RECURSIVE UnzipEntries(_, _)
UnzipEntries(obj, es) ==
  IF es = <<>> THEN obj ELSE UnzipEntries(PutEntry(obj, Head(es)), Tail(es))

UnzipOk(content) == content.kind = "zip"

unzipFile(content) == UnzipEntries(<<>>, content.zipEntries)

\* The extension the handler accepts, by revision.
AcceptedExt(version) == IF version = "zip" THEN ExtZip ELSE ExtSlp

RejectMessage(version) ==
  IF version = "zip" THEN "Only .zip files are accepted"
  ELSE "Only .slp files are accepted"

\* for (...) { if (!filename.endsWith(".slp")) continue; ... }
SkipNothing(es) == es

SkipEntries(es) ==
  IF \E i \in 1..Len(es) : EndsWith(es[i].filename, ExtSlp)
  THEN SubSeq(es, (CHOOSE i \in 1..Len(es) :
                     /\ EndsWith(es[i].filename, ExtSlp)
                     /\ \A j \in 1..(i - 1) : ~EndsWith(es[j].filename, ExtSlp)),
              Len(es))
  ELSE <<>>

RemoveNothing(fs, p) == fs

\* fs.unlinkSync(p), when it succeeds
Remove(fs, p) == [q \in DOMAIN fs \ {p} |-> fs[q]]

Store(fs, p, c) == [q \in DOMAIN fs \cup {p} |-> IF q = p THEN c ELSE fs[q]]

\* res.status(s).json(body); return resolve()
\* evs are the events of this step that precede the response.
Answer(evs, status, body) ==
  /\ responses' = responses \o Respond(status, body)
  /\ srvLog' = srvLog \o evs \o <<Ev("respond", NoPath)>>
  /\ resolved' = TRUE
  /\ hpc' = "done"

\* An exception that nothing catches: the handler ends without a response.
Uncaught(evs) ==
  /\ srvLog' = srvLog \o evs
  /\ hpc' = "crashed"
  /\ UNCHANGED <<responses, resolved>>

\* if (req.method !== "POST")
MethodAllowedAny(method) == TRUE

MethodAllowed(method) == method = "POST"

\* A request reaches the handler; the state of the previous request's
\* handler is gone, the filesystem stays.
\* if (req.method !== "POST") return res.status(405).json(...)
Receive(r) ==
  /\ req' = r
  /\ reqCount' = reqCount + 1
  /\ upFiles' = <<>>
  /\ entries' = <<>>
  /\ results' = <<>>
  /\ tempPath' = NoPath
  /\ IF ~MethodAllowed(r.method)
     THEN /\ responses' = Respond(405, MsgBody("Method not allowed"))
          /\ srvLog' = <<Ev("respond", NoPath)>>
          /\ resolved' = TRUE
          /\ hpc' = "done"
     ELSE /\ responses' = <<>>
          /\ srvLog' = <<>>
          /\ resolved' = FALSE
          /\ hpc' = "form"
  /\ UNCHANGED <<handlerVersion, appEnv, fsys, faultsLeft>>

\* Some client sends a request to the endpoint.
HandlerStart ==
  /\ hpc = "idle"
  /\ \E r \in Requests : Receive(r)
  /\ UNCHANGED <<pickerVars, sdVars, pageVars>>

\* An I/O call (readFileSync, writeFileSync, unlinkSync) succeeds or throws;
\* faultsLeft bounds how many throw.
IoOutcomes == IF faultsLeft > 0 THEN BOOLEAN ELSE {TRUE}

Fault(ok) == faultsLeft' = IF ok THEN faultsLeft ELSE faultsLeft - 1

\* formidable fails on a malformed body and on a part larger than
\* maxFileSize.
FormError(r, cap) ==
  \/ r.malformed
  \/ \E i \in 1..Len(r.replayFile) : r.replayFile[i].size > cap

\* The same branch returning without a response.
FormErrBranchNoResponse(evs) == Uncaught(evs)

\* if (err) { res.status(500).json({message: "Error parsing form data"}) }
FormErrBranch(evs) == Answer(evs, 500, MsgBody("Error parsing form data"))

\* form.parse(req, callback), up to the callback's validation.
\* formidable streams each part to file.filepath; on an error the parts it
\* had opened may or may not be left behind.
FormParse ==
  /\ hpc = "form"
  /\ LET n == Len(req.replayFile)
         stored == [p \in DOMAIN fsys \cup {UploadPath(reqCount, i) : i \in 1..n} |->
                      IF p \in DOMAIN fsys THEN fsys[p]
                      ELSE req.replayFile[(CHOOSE i \in 1..n :
                                             UploadPath(reqCount, i) = p)].content]
     IN
     IF FormError(req, MaxFileSize)
     THEN /\ \E kept \in BOOLEAN : fsys' = IF kept THEN stored ELSE fsys
          /\ FormErrBranch(<<Ev("formError", NoPath)>>)
          /\ UNCHANGED upFiles
     ELSE /\ fsys' = stored
          /\ upFiles' = [i \in 1..n |->
                           [originalFilename |-> req.replayFile[i].originalFilename,
                            filepath |-> UploadPath(reqCount, i)]]
          /\ srvLog' = Append(srvLog, Ev("formParse", NoPath))
          /\ hpc' = "validate"
          /\ UNCHANGED <<responses, resolved>>
  /\ UNCHANGED <<handlerVersion, appEnv, req, entries, results, tempPath,
                 reqCount, faultsLeft, pickerVars, sdVars, pageVars>>

\* !file.originalFilename || !file.originalFilename.endsWith(ext)
RejectedNameNever(version, name) == FALSE

RejectedName(version, name) ==
  \/ Len(name) = 0
  \/ ~EndsWith(name, AcceptedExt(version))

\* The callback's checks on files.replayFile.
Validate ==
  /\ hpc = "validate"
  /\ IF Len(upFiles) = 0
     THEN Answer(<<>>, 400, MsgBody("No replay file uploaded"))
     ELSE IF RejectedName(handlerVersion, upFiles[1].originalFilename)
          THEN Answer(<<>>, 400, MsgBody(RejectMessage(handlerVersion)))
          ELSE /\ hpc' = IF handlerVersion = "zip" THEN "unzip" ELSE "parse"
               /\ UNCHANGED <<responses, resolved, srvLog>>
  /\ tempPath' = IF handlerVersion = "slp" /\ Len(upFiles) > 0
                 THEN upFiles[1].filepath ELSE tempPath
  /\ UNCHANGED <<handlerVersion, appEnv, req, upFiles, fsys, entries, results,
                 reqCount, faultsLeft, pickerVars, sdVars, pageVars>>

\* catch (parseErr) { res.status(500).json({message: "Error parsing replay file"}) }
CatchParseErrRethrow(evs) == Uncaught(evs)

CatchParseErr(evs) == Answer(evs, 500, MsgBody("Error parsing replay file"))

\* zip revision: fs.readFileSync(file.filepath); unzipFile(zipBuffer); then
\* the loop advances to the first ".slp" entry.
ReadUnzip ==
  /\ hpc = "unzip"
  /\ \E readOk \in IoOutcomes :
       LET p == upFiles[1].filepath IN
       /\ Fault(readOk)
       /\ IF ~readOk \/ p \notin DOMAIN fsys
          THEN /\ CatchParseErr(<<Ev("readThrow", p)>>)
               /\ UNCHANGED <<entries, results>>
          ELSE IF ~UnzipOk(fsys[p])
          THEN /\ CatchParseErr(<<Ev("read", p), Ev("unzipThrow", p)>>)
               /\ UNCHANGED <<entries, results>>
          ELSE /\ entries' = SkipEntries(unzipFile(fsys[p]))
               /\ results' = <<>>
               /\ srvLog' = srvLog \o <<Ev("read", p), Ev("unzip", p)>>
               /\ hpc' = IF entries' = <<>> THEN "cleanup" ELSE "write"
               /\ UNCHANGED <<responses, resolved>>
  /\ UNCHANGED <<handlerVersion, appEnv, req, upFiles, fsys, tempPath, reqCount,
                 pickerVars, sdVars, pageVars>>

\* fs.writeFileSync(tempPath, data)
WriteEntry ==
  /\ hpc = "write"
  /\ LET e == Head(entries)
         p == TempPath(appEnv, e.filename)
     IN
     /\ tempPath' = p
     /\ \E writeOk \in IoOutcomes :
          /\ Fault(writeOk)
          /\ IF writeOk
             THEN /\ fsys' = Store(fsys, p, e.data)
                  /\ srvLog' = Append(srvLog, Ev("write", p))
                  /\ hpc' = "parse"
                  /\ UNCHANGED <<responses, resolved>>
             ELSE /\ CatchParseErr(<<Ev("writeThrow", p)>>)
                  /\ UNCHANGED fsys
  /\ UNCHANGED <<handlerVersion, appEnv, req, upFiles, entries, results, reqCount,
                 pickerVars, sdVars, pageVars>>

\* zip revision: try { parsed = await parseSlippiReplay(tempPath);
\* results.push({filename, parsed}) } catch { results.push({filename, error}) }
ParseEntry ==
  /\ hpc = "parse"
  /\ handlerVersion = "zip"
  /\ \E readOk \in IoOutcomes :
       /\ Fault(readOk)
       /\ IF readOk /\ ParseOk(fsys, tempPath)
          THEN /\ results' = Append(results,
                               [filename |-> Head(entries).filename,
                                parsed |-> parseSlippiReplay(fsys, tempPath)])
               /\ srvLog' = Append(srvLog, Ev("parse", tempPath))
          ELSE /\ results' = Append(results,
                               [filename |-> Head(entries).filename,
                                error |-> "Failed to parse"])
               /\ srvLog' = Append(srvLog, Ev("parseThrow", tempPath))
  /\ hpc' = "unlink"
  /\ UNCHANGED <<handlerVersion, appEnv, req, upFiles, fsys, entries, tempPath,
                 responses, resolved, reqCount, pickerVars, sdVars, pageVars>>

\* try { fs.unlinkSync(tempPath) } catch {}; then the loop advances to the
\* next ".slp" entry.
UnlinkEntry ==
  /\ hpc = "unlink"
  /\ \E unlinkOk \in IoOutcomes :
       /\ Fault(unlinkOk)
       /\ IF unlinkOk /\ tempPath \in DOMAIN fsys
          THEN /\ fsys' = Remove(fsys, tempPath)
               /\ srvLog' = Append(srvLog, Ev("unlink", tempPath))
          ELSE /\ fsys' = fsys
               /\ srvLog' = Append(srvLog, Ev("unlinkThrow", tempPath))
  /\ entries' = SkipEntries(Tail(entries))
  /\ hpc' = IF entries' = <<>> THEN "cleanup" ELSE "write"
  /\ UNCHANGED <<handlerVersion, appEnv, req, upFiles, results, tempPath,
                 responses, resolved, reqCount, pickerVars, sdVars, pageVars>>

\* slp revision: replayData = await parseSlippiReplay(file.filepath)
ParseSlp ==
  /\ hpc = "parse"
  /\ handlerVersion = "slp"
  /\ \E readOk \in IoOutcomes :
       /\ Fault(readOk)
       /\ IF readOk /\ ParseOk(fsys, tempPath)
          THEN /\ results' = <<parseSlippiReplay(fsys, tempPath)>>
               /\ srvLog' = Append(srvLog, Ev("parse", tempPath))
               /\ hpc' = "cleanup"
               /\ UNCHANGED <<responses, resolved>>
          ELSE /\ CatchParseErr(<<Ev("parseThrow", tempPath)>>)
               /\ UNCHANGED results
  /\ UNCHANGED <<handlerVersion, appEnv, req, upFiles, fsys, entries, tempPath,
                 reqCount, pickerVars, sdVars, pageVars>>

\* The body of the 200 response, by revision.
OkBodyAlwaysResults(version, rs) == [results |-> rs]

OkBody(version, rs) == IF version = "zip" THEN [results |-> rs] ELSE rs[1]

\* try { fs.unlinkSync(file.filepath) } catch {}; res.status(200).json(...)
Cleanup ==
  /\ hpc = "cleanup"
  /\ LET p == upFiles[1].filepath IN
     \E unlinkOk \in IoOutcomes :
       /\ Fault(unlinkOk)
       /\ fsys' = IF unlinkOk /\ p \in DOMAIN fsys THEN Remove(fsys, p) ELSE fsys
       /\ Answer(<<Ev(IF unlinkOk /\ p \in DOMAIN fsys THEN "unlink" ELSE "unlinkThrow", p)>>,
                 200, OkBody(handlerVersion, results))
  /\ UNCHANGED <<handlerVersion, appEnv, req, upFiles, entries, results, tempPath,
                 reqCount, pickerVars, sdVars, pageVars>>

\* ------------------------------------------------------------------------
\* Upload endpoint, zip revision: two requests at once
\* ------------------------------------------------------------------------
\* The callback passed to form.parse runs from its start to its response
\* without giving way to the other request's callback: parseSlippiReplay
\* does no asynchronous I/O, so each await in the loop resumes in a
\* microtask, before any other request's event is dispatched.  Receiving the
\* uploads (form.parse) is asynchronous and interleaves freely.
ConcRequests == {1, 2}

NoFile == [data |-> NoData, writer |-> 0]

\* The request that wrote the file at p (0: there is no file).
Writer(fs, p) == IF p \in DOMAIN fs THEN fs[p].writer ELSE 0

\* The operation op of request r on path p, if the file there was written
\* by the other request.
Touch(r, op, p) ==
  IF Writer(cFs, p) \notin {0, r}
  THEN {[by |-> r, op |-> op, path |-> p, writer |-> Writer(cFs, p)]}
  ELSE {}

CDone(r, status, body) ==
  /\ cResponses' = [cResponses EXCEPT ![r] = @ \o Respond(status, body)]
  /\ cpc' = [cpc EXCEPT ![r] = "done"]
  /\ running' = 0

\* A POST with a zip arrives and formidable stores it under file.filepath.
CArrive(r) ==
  /\ handlerVersion = "zip"
  /\ cpc[r] = "none"
  /\ \E c \in ZipContents :
       /\ cUpload' = [cUpload EXCEPT ![r] = Upload(NameZip, 1, c)]
       /\ cFs' = Store(cFs, UploadPath(r, 1), [data |-> c, writer |-> r])
  /\ cpc' = [cpc EXCEPT ![r] = "ready"]
  /\ UNCHANGED <<cEntries, cTemp, cResults, cResponses, running, cForeign, faultsLeft>>

\* The callback starts: the checks pass, fs.readFileSync(file.filepath),
\* unzipFile, and the loop advances to the first ".slp" entry.
CCallback(r) ==
  /\ cpc[r] = "ready"
  /\ running = 0
  /\ ~RejectedName(handlerVersion, cUpload[r].originalFilename)
  /\ \E readOk \in IoOutcomes :
       /\ Fault(readOk)
       /\ IF ~readOk
          THEN /\ CDone(r, 500, MsgBody("Error parsing replay file"))
               /\ UNCHANGED <<cEntries, cResults>>
          ELSE /\ cEntries' = [cEntries EXCEPT
                                 ![r] = SkipEntries(unzipFile(cFs[UploadPath(r, 1)].data))]
               /\ cResults' = [cResults EXCEPT ![r] = <<>>]
               /\ cpc' = [cpc EXCEPT ![r] = IF cEntries'[r] = <<>> THEN "cleanup"
                                            ELSE "write"]
               /\ running' = r
               /\ UNCHANGED cResponses
  /\ UNCHANGED <<cUpload, cTemp, cFs, cForeign>>

\* fs.writeFileSync(tempPath, data)
CWriteEntry(r) ==
  /\ cpc[r] = "write"
  /\ running = r
  /\ LET e == Head(cEntries[r])
         p == TempPath(appEnv, e.filename)
     IN
     /\ cTemp' = [cTemp EXCEPT ![r] = p]
     /\ \E writeOk \in IoOutcomes :
          /\ Fault(writeOk)
          /\ IF writeOk
             THEN /\ cFs' = Store(cFs, p, [data |-> e.data, writer |-> r])
                  /\ cForeign' = cForeign \cup Touch(r, "write", p)
                  /\ cpc' = [cpc EXCEPT ![r] = "parse"]
                  /\ UNCHANGED <<cResponses, running>>
             ELSE /\ CDone(r, 500, MsgBody("Error parsing replay file"))
                  /\ UNCHANGED <<cFs, cForeign>>
  /\ UNCHANGED <<cUpload, cEntries, cResults>>

\* parsed = await parseSlippiReplay(tempPath), in try/catch
CParseEntry(r) ==
  /\ cpc[r] = "parse"
  /\ running = r
  /\ LET p == cTemp[r]
         files == [q \in DOMAIN cFs |-> cFs[q].data]
     IN
     /\ cResults' = [cResults EXCEPT ![r] = Append(@,
                       IF ParseOk(files, p)
                       THEN [filename |-> Head(cEntries[r]).filename,
                             parsed |-> parseSlippiReplay(files, p)]
                       ELSE [filename |-> Head(cEntries[r]).filename,
                             error |-> "Failed to parse"])]
     /\ cForeign' = cForeign \cup Touch(r, "parse", p)
  /\ cpc' = [cpc EXCEPT ![r] = "unlink"]
  /\ UNCHANGED <<cUpload, cEntries, cTemp, cResponses, cFs, running, faultsLeft>>

\* try { fs.unlinkSync(tempPath) } catch {}
CUnlinkEntry(r) ==
  /\ cpc[r] = "unlink"
  /\ running = r
  /\ \E unlinkOk \in IoOutcomes :
       /\ Fault(unlinkOk)
       /\ IF unlinkOk /\ cTemp[r] \in DOMAIN cFs
          THEN /\ cFs' = Remove(cFs, cTemp[r])
               /\ cForeign' = cForeign \cup Touch(r, "unlink", cTemp[r])
          ELSE UNCHANGED <<cFs, cForeign>>
  /\ cEntries' = [cEntries EXCEPT ![r] = SkipEntries(Tail(@))]
  /\ cpc' = [cpc EXCEPT ![r] = IF cEntries'[r] = <<>> THEN "cleanup" ELSE "write"]
  /\ UNCHANGED <<cUpload, cTemp, cResults, cResponses, running>>

\* try { fs.unlinkSync(file.filepath) } catch {}; res.status(200).json({results})
CCleanup(r) ==
  /\ cpc[r] = "cleanup"
  /\ running = r
  /\ \E unlinkOk \in IoOutcomes :
       /\ Fault(unlinkOk)
       /\ cFs' = IF unlinkOk THEN Remove(cFs, UploadPath(r, 1)) ELSE cFs
  /\ CDone(r, 200, OkBody(handlerVersion, cResults[r]))
  /\ UNCHANGED <<cUpload, cEntries, cTemp, cResults, cForeign>>

ConcInit ==
  /\ cpc = [r \in ConcRequests |-> "none"]
  /\ cUpload = [r \in ConcRequests |-> Upload(NoName, 1, NoData)]
  /\ cEntries = [r \in ConcRequests |-> <<>>]
  /\ cTemp = [r \in ConcRequests |-> NoPath]
  /\ cResults = [r \in ConcRequests |-> <<>>]
  /\ cResponses = [r \in ConcRequests |-> <<>>]
  /\ cFs = [p \in {} |-> NoFile]
  /\ running = 0
  /\ cForeign = {}

\* The steps of the two handlers; they change faultsLeft and nothing else
\* outside concVars.
ConcStep ==
  \E r \in ConcRequests :
    \/ CArrive(r)
    \/ CCallback(r)
    \/ CWriteEntry(r)
    \/ CParseEntry(r)
    \/ CUnlinkEntry(r)
    \/ CCleanup(r)

ConcNext ==
  /\ ConcStep
  /\ UNCHANGED <<handlerVersion, appEnv, req, hpc, upFiles, fsys, entries, results,
                 tempPath, responses, resolved, srvLog, reqCount>>
  /\ UNCHANGED <<pickerVars, sdVars, pageVars, aggVars, medVars>>

\* ------------------------------------------------------------------------
\* Statistics components: the replays they are given
\* ------------------------------------------------------------------------
\* A parsed two-player replay.  settings.players lists the players in port
\* order with their playerIndex and characterId; metadata.players is keyed
\* by playerIndex; stats.overall has one entry per player; stats.stocks is
\* the list of stocks, of which only the owners matter here.
NullSel == "null"

Undef == -1

Ratio(r) == [ratio |-> r]

MkOverall(pi, v) ==
  [playerIndex |-> pi,
   damagePerOpening |-> Ratio(v),
   openingsPerKill |-> Ratio(2 * v),
   inputsPerMinute |-> Ratio(3 * v),
   totalDamage |-> 4 * v]

\* ports: the two playerIndex values; chars: the characters; codes: the
\* connect codes; stockOwners: positions (1 or 2) owning each stock, in list
\* order; vals: the stat value of each position.
MkReplay(ports, chars, codes, stockOwners, vals) ==
  [settings |-> [players |-> [i \in 1..2 |->
                    [playerIndex |-> ports[i], characterId |-> chars[i]]]],
   metadata |-> [players |-> [q \in {ports[1], ports[2]} |->
                    [names |-> [code |-> IF q = ports[1] THEN codes[1] ELSE codes[2]]]]],
   stats |-> [overall |-> [i \in 1..2 |-> MkOverall(ports[i], vals[i])],
              stocks |-> [k \in 1..Len(stockOwners) |->
                            [playerIndex |-> ports[stockOwners[k]]]]]]

CodeA == "AAA#1"
CodeB == "BBB#2"
CodeC == "CCC#3"

AggReplays ==
  {MkReplay(ports, <<1, 2>>, <<CodeA, CodeB>>, owners, vals) :
     ports \in {<<0, 1>>, <<1, 2>>},
     owners \in {<<1, 2>>, <<2, 1>>},
     vals \in {<<5, 3>>, <<0, 0>>}}
  \cup {MkReplay(<<0, 1>>, <<2, 2>>, <<CodeA, CodeB>>, <<1, 2>>, <<5, 3>>),
        MkReplay(<<0, 1>>, <<1, 2>>, <<CodeC, CodeB>>, <<1, 2>>, <<5, 3>>),
        MkReplay(<<1, 2>>, <<1, 2>>, <<CodeC, CodeA>>, <<1, 2>>, <<5, 3>>),
        MkReplay(<<0, 1>>, <<1, 2>>, <<CodeA, CodeB>>, <<>>, <<5, 3>>)}

AggSelections == {NullSel, CodeA, CodeB}

\* a / b in JavaScript, kept as the pair: b = 0 gives NaN or Infinity.
Div(a, b) == [num |-> a, den |-> b]

Zero == [num |-> 0, den |-> 1]

\* array.findIndex(pred) as a position from 1, or Undef for -1; hits[i] is
\* pred(array[i]).  array.find(pred) is the element at that position.
FindIndex(hits) ==
  IF \E i \in 1..Len(hits) : hits[i]
  THEN CHOOSE i \in 1..Len(hits) : hits[i] /\ \A j \in 1..(i - 1) : ~hits[j]
  ELSE Undef

\* replay.metadata.players[k]?.names.code
CodeAt(replay, k) ==
  IF k \in DOMAIN replay.metadata.players
  THEN replay.metadata.players[k].names.code ELSE "undefined"

\* ------------------------------------------------------------------------
\* CharacterBreakdown
\* ------------------------------------------------------------------------
IsWinnerOwnsLast(stocks, playerIndex) == stocks[Len(stocks)].playerIndex = playerIndex

\* lastStock = stocks[stocks.length - 1];
\* isWinner = lastStock.playerIndex !== playerIndex
\* (the same two lines in CharacterBreakdown and in MatchupAnalysis)
IsWinner(stocks, playerIndex) == stocks[Len(stocks)].playerIndex # playerIndex

NewCharacterEntry(c) ==
  [characterId |-> c, totalGames |-> 0, wins |-> 0, losses |-> 0,
   totalDamagePerOpening |-> 0, openingsCount |-> 0,
   openingsPerKillTotal |-> 0, killsCount |-> 0, inputsPerMinuteTotal |-> 0]

\* The value the code calls selectedPlayerIndex: the result of findIndex on
\* settings.players, counted from 0 (-1: not found).
SelectedPlayerIndex(replay, sel) ==
  LET at == FindIndex([i \in 1..Len(replay.settings.players) |->
                         CodeAt(replay, replay.settings.players[i].playerIndex) = sel])
  IN IF at = Undef THEN -1 ELSE at - 1

\* playerIndices
PlayerIndices(replay, sel) ==
  IF sel # NullSel
  THEN <<SelectedPlayerIndex(replay, sel)>>
  ELSE [i \in 1..Len(replay.settings.players) |-> replay.settings.players[i].playerIndex]

\* The body of playerIndices.forEach for one playerIndex.  acc is
\* [map, threw]: statsMap, and whether a TypeError has ended the effect.
CharacterVisit(acc, replay, playerIndex) ==
  LET players == replay.settings.players
      at == FindIndex([i \in 1..Len(players) |-> players[i].playerIndex = playerIndex])
      c == players[at].characterId
      map1 == IF c \in DOMAIN acc.map THEN acc.map
              ELSE [d \in DOMAIN acc.map \cup {c} |->
                      IF d = c THEN NewCharacterEntry(c) ELSE acc.map[d]]
      st == FindIndex([i \in 1..Len(replay.stats.overall) |-> replay.stats.overall[i].playerIndex = playerIndex])
      playerStats == replay.stats.overall[st]
      stocks == replay.stats.stocks
      isWinner == IsWinner(stocks, playerIndex)
      truthy(r) == r # 0
  IN
  IF acc.threw \/ playerIndex = -1 \/ at = Undef THEN acc
  ELSE IF st = Undef THEN [acc EXCEPT !.map = map1]
  ELSE IF Len(stocks) = 0 THEN [map |-> map1, threw |-> TRUE]
  ELSE [acc EXCEPT !.map =
          [map1 EXCEPT ![c] =
             [@ EXCEPT
                !.totalGames = @ + 1,
                !.wins = IF isWinner THEN @ + 1 ELSE @,
                !.losses = IF isWinner THEN @ ELSE @ + 1,
                !.totalDamagePerOpening =
                   IF truthy(playerStats.damagePerOpening.ratio)
                   THEN @ + playerStats.damagePerOpening.ratio ELSE @,
                !.openingsCount =
                   IF truthy(playerStats.damagePerOpening.ratio) THEN @ + 1 ELSE @,
                !.openingsPerKillTotal =
                   IF truthy(playerStats.openingsPerKill.ratio)
                   THEN @ + playerStats.openingsPerKill.ratio ELSE @,
                !.killsCount =
                   IF truthy(playerStats.openingsPerKill.ratio) THEN @ + 1 ELSE @,
                !.inputsPerMinuteTotal =
                   IF truthy(playerStats.inputsPerMinute.ratio)
                   THEN @ + playerStats.inputsPerMinute.ratio ELSE @]]]

RECURSIVE CharacterVisitAll(_, _, _)
CharacterVisitAll(acc, replay, indices) ==
  IF indices = <<>> THEN acc
  ELSE CharacterVisitAll(CharacterVisit(acc, replay, Head(indices)), replay, Tail(indices))

\* The body of replayDataList.forEach for one replay.
CharacterReplay(acc, replay, sel) ==
  IF sel = NullSel \/ SelectedPlayerIndex(replay, sel) # -1
  THEN CharacterVisitAll(acc, replay, PlayerIndices(replay, sel))
  ELSE acc

RECURSIVE CharacterStatsMap(_, _, _)
CharacterStatsMap(acc, list, sel) ==
  IF list = <<>> THEN acc
  ELSE CharacterStatsMap(CharacterReplay(acc, Head(list), sel), Tail(list), sel)

\* characterStatsArray, as a function of characterId
CharacterRow(stats) ==
  [characterId |-> stats.characterId,
   totalGames |-> stats.totalGames,
   wins |-> stats.wins,
   losses |-> stats.losses,
   winRate |-> IF stats.totalGames > 0 THEN Div(stats.wins * 100, stats.totalGames)
               ELSE Zero,
   averageDamagePerOpening |->
     IF stats.openingsCount > 0
     THEN Div(stats.totalDamagePerOpening, stats.openingsCount) ELSE Zero,
   averageOpeningsPerKill |->
     IF stats.killsCount > 0
     THEN Div(stats.openingsPerKillTotal, stats.killsCount) ELSE Zero,
   averageInputsPerMinute |->
     IF stats.totalGames > 0
     THEN Div(stats.inputsPerMinuteTotal, stats.totalGames) ELSE Zero]

EmptyMap == [c \in {} |-> NewCharacterEntry(c)]

\* What an effect leaves: its statsMap and rows, or that it threw; "unset"
\* before the first run.
Unset == [state |-> "unset"]

Threw == [state |-> "threw"]

\* The CharacterBreakdown effect for props (list, sel); prev is the
\* characterStats it leaves alone when the list is empty.
CharacterBreakdownEffect(prev, list, sel) ==
  IF Len(list) = 0 THEN prev
  ELSE LET acc == CharacterStatsMap([map |-> EmptyMap, threw |-> FALSE], list, sel) IN
       IF acc.threw THEN Threw
       ELSE [state |-> "set", map |-> acc.map,
             rows |-> [c \in DOMAIN acc.map |-> CharacterRow(acc.map[c])]]

\* ------------------------------------------------------------------------
\* MatchupAnalysis
\* ------------------------------------------------------------------------
NewMatchupEntry(pc, oc) ==
  [characterId |-> pc, opponentCharacterId |-> oc, totalGames |-> 0,
   wins |-> 0, losses |-> 0, totalDamageDealt |-> 0, totalDamageTaken |-> 0]

\* selectedCharacter === null
NoCharacter == -1

\* What the first part of the forEach callback leaves in playerIndex: the
\* index (0 or 1), SkipReplay when the callback returns, FindThrows when
\* players.find dereferences an undefined metadata entry.
SkipReplay == -1

FindThrows == -2

MatchupPlayerIndex(replay, sel, char) ==
  LET meta == replay.metadata.players
      playerWithCharacter ==
        FindIndex([i \in 1..Len(replay.settings.players) |-> replay.settings.players[i].characterId = char])
  IN
  IF sel # NullSel
  THEN IF 0 \notin DOMAIN meta THEN FindThrows
       ELSE IF meta[0].names.code = sel THEN 0
       ELSE IF 1 \notin DOMAIN meta THEN FindThrows
       ELSE IF meta[1].names.code = sel THEN 1
       ELSE SkipReplay
  ELSE IF char # NoCharacter
  THEN IF playerWithCharacter = Undef THEN SkipReplay ELSE playerWithCharacter - 1
  ELSE SkipReplay

\* The body of replayDataList.forEach for one replay.  acc is [map, threw].
MatchupReplay(acc, replay, sel, char) ==
  LET players == replay.settings.players
      playerIndex == MatchupPlayerIndex(replay, sel, char)
      opponentIndex == IF playerIndex = 0 THEN 1 ELSE 0
      pc == players[playerIndex + 1].characterId
      oc == players[opponentIndex + 1].characterId
      key == <<pc, oc>>
      map1 == IF key \in DOMAIN acc.map THEN acc.map
              ELSE [d \in DOMAIN acc.map \cup {key} |->
                      IF d = key THEN NewMatchupEntry(pc, oc) ELSE acc.map[d]]
      ps == FindIndex([i \in 1..Len(replay.stats.overall) |-> replay.stats.overall[i].playerIndex = playerIndex])
      os == FindIndex([i \in 1..Len(replay.stats.overall) |-> replay.stats.overall[i].playerIndex = opponentIndex])
      stocks == replay.stats.stocks
      isWinner == IsWinner(stocks, playerIndex)
  IN
  IF acc.threw \/ Len(players) # 2 THEN acc
  ELSE IF playerIndex = FindThrows THEN [acc EXCEPT !.threw = TRUE]
  ELSE IF playerIndex = SkipReplay THEN acc
  ELSE IF char # NoCharacter /\ pc # char THEN acc
  ELSE IF ps = Undef \/ os = Undef THEN [acc EXCEPT !.map = map1]
  ELSE IF Len(stocks) = 0 THEN [map |-> map1, threw |-> TRUE]
  ELSE [acc EXCEPT !.map =
          [map1 EXCEPT ![key] =
             [@ EXCEPT
                !.totalGames = @ + 1,
                !.wins = IF isWinner THEN @ + 1 ELSE @,
                !.losses = IF isWinner THEN @ ELSE @ + 1,
                !.totalDamageDealt = @ + replay.stats.overall[ps].totalDamage,
                !.totalDamageTaken = @ + replay.stats.overall[os].totalDamage]]]

RECURSIVE MatchupStatsMap(_, _, _, _)
MatchupStatsMap(acc, list, sel, char) ==
  IF list = <<>> THEN acc
  ELSE MatchupStatsMap(MatchupReplay(acc, Head(list), sel, char), Tail(list), sel, char)

\* The same with damageRatio computed without its guard.
MatchupRowUnguarded(stats) ==
  [characterId |-> stats.characterId,
   opponentCharacterId |-> stats.opponentCharacterId,
   totalGames |-> stats.totalGames,
   wins |-> stats.wins,
   losses |-> stats.losses,
   winRate |-> IF stats.totalGames > 0 THEN Div(stats.wins * 100, stats.totalGames)
               ELSE Zero,
   averageDamageDealt |->
     IF stats.totalGames > 0 THEN Div(stats.totalDamageDealt, stats.totalGames)
     ELSE Zero,
   averageDamageTaken |->
     IF stats.totalGames > 0 THEN Div(stats.totalDamageTaken, stats.totalGames)
     ELSE Zero,
   damageRatio |-> Div(stats.totalDamageDealt, stats.totalDamageTaken)]

\* matchupStatsArray, as a function of the matchup key
MatchupRow(stats) ==
  [characterId |-> stats.characterId,
   opponentCharacterId |-> stats.opponentCharacterId,
   totalGames |-> stats.totalGames,
   wins |-> stats.wins,
   losses |-> stats.losses,
   winRate |-> IF stats.totalGames > 0 THEN Div(stats.wins * 100, stats.totalGames)
               ELSE Zero,
   averageDamageDealt |->
     IF stats.totalGames > 0 THEN Div(stats.totalDamageDealt, stats.totalGames)
     ELSE Zero,
   averageDamageTaken |->
     IF stats.totalGames > 0 THEN Div(stats.totalDamageTaken, stats.totalGames)
     ELSE Zero,
   damageRatio |->
     IF stats.totalDamageTaken > 0
     THEN Div(stats.totalDamageDealt, stats.totalDamageTaken) ELSE Zero]

EmptyMatchupMap == [k \in {} |-> NewMatchupEntry(0, 0)]

\* The MatchupAnalysis effect for props (list, sel) and state char; prev is
\* the matchupStats it leaves alone when the list is empty.
MatchupAnalysisEffect(prev, list, sel, char) ==
  IF Len(list) = 0 THEN prev
  ELSE LET acc == MatchupStatsMap([map |-> EmptyMatchupMap, threw |-> FALSE],
                                  list, sel, char) IN
       IF acc.threw THEN Threw
       ELSE [state |-> "set", map |-> acc.map,
             rows |-> [k \in DOMAIN acc.map |-> MatchupRow(acc.map[k])]]

\* ------------------------------------------------------------------------
\* ReplayDataSummary: calculateAverage and calculateMedian
\* ------------------------------------------------------------------------
\* data.reduce((sum, val) => sum + val, 0)
RECURSIVE Sum(_)
Sum(data) == IF data = <<>> THEN 0 ELSE Head(data) + Sum(Tail(data))

\* data.reduce(...) / data.length
calculateAverage(data) == Div(Sum(data), Len(data))

\* one step of sort((a, b) => a - b): v put after the elements not above it
RECURSIVE InsertAsc(_, _)
InsertAsc(sorted, v) ==
  IF sorted = <<>> THEN <<v>>
  ELSE IF Head(sorted) - v <= 0 THEN <<Head(sorted)>> \o InsertAsc(Tail(sorted), v)
  ELSE <<v>> \o sorted

\* array.sort((a, b) => a - b)
RECURSIVE SortAsc(_)
SortAsc(arr) ==
  IF arr = <<>> THEN <<>>
  ELSE InsertAsc(SortAsc(SubSeq(arr, 1, Len(arr) - 1)), arr[Len(arr)])

\* (undefined + undefined) / 2
NaN == [num |-> 0, den |-> 0]

\* The same, sorting data itself instead of a copy.
calculateMedianInPlace(data) ==
  LET sorted == SortAsc(data)
      mid == Len(sorted) \div 2
  IN [result |-> IF Len(sorted) = 0 THEN NaN
                 ELSE IF Len(sorted) % 2 = 0
                 THEN Div(sorted[mid] + sorted[mid + 1], 2)
                 ELSE Div(sorted[mid + 1], 1),
      after |-> sorted]

\* calculateMedian: its return value, and the caller's array after the
\* call (sorted is a copy, [...data]).  Positions count from 1, so
\* sorted[mid - 1], sorted[mid] of the code are sorted[mid], sorted[mid + 1].
calculateMedian(data) ==
  LET sorted == SortAsc(data)
      mid == Len(sorted) \div 2
  IN [result |-> IF Len(sorted) = 0 THEN NaN
                 ELSE IF Len(sorted) % 2 = 0
                 THEN Div(sorted[mid] + sorted[mid + 1], 2)
                 ELSE Div(sorted[mid + 1], 1),
      after |-> data]

DataValues == 0..4

\* the caller collects one more value
MedianPush ==
  /\ Len(medData) < MaxData
  /\ \E v \in DataValues : medData' = Append(medData, v)
  /\ medOut' = [state |-> "none"]

\* the caller calls calculateMedian(medData), which it does for a
\* non-empty list only
MedianCall ==
  /\ medOut.state = "none"
  /\ Len(medData) > 0
  /\ medData' = calculateMedian(medData).after
  /\ medOut' = [state |-> "returned", arg |-> medData,
                result |-> calculateMedian(medData).result]

MedianInit ==
  /\ medData = <<>>
  /\ medOut = [state |-> "none"]

MedianStep == MedianPush \/ MedianCall

MedianNext ==
  MedianStep /\ UNCHANGED <<pickerVars, srvVars, sdVars, pageVars, concVars, aggVars>>

\* ------------------------------------------------------------------------
\* ReplayDataSummary: the win/loss statistics
\* ------------------------------------------------------------------------
\* xAxis, yAxis before a choice is made
NoAxes == <<"", "">>

ChosenAxes == <<"damagePerOpening", "totalDamage">>

\* [replay.metadata.players[0], replay.metadata.players[1]] has an
\* undefined element, so reading p.names throws
MetaMissing(replay) ==
  0 \notin DOMAIN replay.metadata.players \/ 1 \notin DOMAIN replay.metadata.players

\* [players[0], players[1]].findIndex(p => p.names.code === sel), from 0
MetaIndexOf(replay, sel) ==
  IF replay.metadata.players[0].names.code = sel THEN 0
  ELSE IF replay.metadata.players[1].names.code = sel THEN 1
  ELSE -1

\* typeof e[axis] === "object" && "ratio" in e[axis] ? e[axis].ratio : e[axis]
AxisValue(e, axis) == IF axis = "totalDamage" THEN e[axis] ELSE e[axis].ratio

\* filteredData
FilteredData(list, sel) ==
  IF sel # NullSel
  THEN SelectSeq(list, LAMBDA replay : MetaIndexOf(replay, sel) # -1)
  ELSE list

\* The body of filteredData.forEach for one replay.  acc is
\* [winData, lossData], each a sequence of [x, y].
SummaryReplay(acc, replay, sel, axes) ==
  LET playerData == replay.stats.overall
      stocks == replay.stats.stocks
      winnerIndex == stocks[Len(stocks)].playerIndex
      w == FindIndex([i \in 1..Len(playerData) |-> playerData[i].playerIndex = winnerIndex])
      l == FindIndex([i \in 1..Len(playerData) |-> playerData[i].playerIndex # winnerIndex])
      selectedPlayerIndex == MetaIndexOf(replay, sel)
      point(e) == [x |-> AxisValue(e, axes[1]), y |-> AxisValue(e, axes[2])]
      win1 == IF w # Undef /\ playerData[w].playerIndex = selectedPlayerIndex
              THEN Append(acc.winData, point(playerData[w])) ELSE acc.winData
      loss1 == IF l # Undef /\ playerData[l].playerIndex = selectedPlayerIndex
               THEN Append(acc.lossData, point(playerData[l])) ELSE acc.lossData
  IN [winData |-> win1, lossData |-> loss1]

RECURSIVE SummaryData(_, _, _, _)
SummaryData(acc, list, sel, axes) ==
  IF list = <<>> THEN acc
  ELSE SummaryData(SummaryReplay(acc, Head(list), sel, axes), Tail(list), sel, axes)

Xs(data) == [i \in 1..Len(data) |-> data[i].x]

Ys(data) == [i \in 1..Len(data) |-> data[i].y]

\* one of stats.wins, stats.losses; averaged lists the arguments given to
\* calculateAverage
SummaryBucket(data) ==
  [count |-> Len(data),
   xAvg |-> IF Len(data) > 0 THEN calculateAverage(Xs(data)) ELSE Zero,
   yAvg |-> IF Len(data) > 0 THEN calculateAverage(Ys(data)) ELSE Zero,
   xMedian |-> IF Len(data) > 0 THEN calculateMedian(Xs(data)).result ELSE Zero,
   yMedian |-> IF Len(data) > 0 THEN calculateMedian(Ys(data)).result ELSE Zero,
   averaged |-> IF Len(data) > 0 THEN <<Xs(data), Ys(data)>> ELSE <<>>]

\* stats === null
NullStats == [state |-> "null"]

\* The component's render and effect for props (list, sel) and axes; prev
\* is the stats the effect leaves alone when it returns at once.  Counting
\* the player occurrences during render reads names of both metadata
\* players of every replay; the effect reads the last stock of every
\* filtered replay.
ReplayDataSummaryEffect(prev, list, sel, axes) ==
  IF \E k \in 1..Len(list) : MetaMissing(list[k]) THEN Threw
  ELSE IF axes = NoAxes \/ Len(list) = 0 THEN prev
  ELSE IF \E k \in 1..Len(FilteredData(list, sel)) :
            Len(FilteredData(list, sel)[k].stats.stocks) = 0 THEN Threw
  ELSE LET d == SummaryData([winData |-> <<>>, lossData |-> <<>>],
                            FilteredData(list, sel), sel, axes) IN
       IF Len(d.winData) > 0 \/ Len(d.lossData) > 0
       THEN [state |-> "set", wins |-> SummaryBucket(d.winData),
             losses |-> SummaryBucket(d.lossData)]
       ELSE NullStats

\* ------------------------------------------------------------------------
\* Sample-data listing endpoint: pages/api/sample-data
\* ------------------------------------------------------------------------
\* What public/assets/slp-demo-data can hold.
DirListings ==
  { <<>>,
    <<NameASlp, NameTxt, NameBSlp>>,
    <<NameUpperSlp, NameSlpTxt>> }

\* files.filter((f) => f.endsWith(".slp"))
SlpNamesAll(names) == names

SlpNames(names) == SelectSeq(names, LAMBDA f : EndsWith(f, ExtSlp))

\* The body sent when fs.readdir rejects.
ListErrorBody == [error |-> "Failed to list sample files"]

\* handler(_req, res): the method is not looked at.
SampleDataHandler ==
  /\ Len(sdResponses) < MaxSampleRequests
  /\ \E readdirOk \in BOOLEAN, listing \in DirListings :
       /\ sdResponses' = sdResponses \o
            IF readdirOk
            THEN Respond(200, [files |-> SlpNames(listing)])
            ELSE Respond(500, ListErrorBody)
       /\ sdReads' = Append(sdReads, [ok |-> readdirOk, listing |-> listing])
  /\ UNCHANGED <<pickerVars, srvVars, pageVars>>

SampleDataInit == sdResponses = <<>> /\ sdReads = <<>>

\* ------------------------------------------------------------------------
\* The page: pages/index (handleFileUpload)
\* ------------------------------------------------------------------------
PageVersions == {"earlier", "current"}

\* selectedPlayer === null
NullPlayer == "null"

NoError == [text |-> "", files |-> <<>>]

GenericUploadError ==
  [text |-> "Error parsing replay files. Please make sure they are valid .slp files.",
   files |-> <<>>]

\* `Failed to parse the following file(s): ${errorFiles.join(", ")}`
FailedFilesError(names) ==
  [text |-> "Failed to parse the following file(s): ", files |-> names]

\* The files FileUpload hands to onFileUpload: replays as selected, and zips
\* of replays (index.tsx says FileUpload's handleSubmit zips its files the
\* way handleLoadSampleData does).
RawGood == MkFile(NameASlp, 2, SlpData(Game1))
RawJunk == MkFile(NameBSlp, 3, JunkData)
ZipGood == MkFile(NameZip, 11, ZipData(<<Entry(NameASlp, SlpData(Game1))>>))
ZipMixed ==
  MkFile(<<"m">> \o ExtZip, 12,
         ZipData(<<Entry(NameASlp, JunkData), Entry(NameTxt, SlpData(Game1)),
                   Entry(NameBSlp, SlpData(Game2))>>))
ZipNoMeta == MkFile(<<"o">> \o ExtZip, 13, ZipData(<<Entry(NameCSlp, SlpData(GameNoMeta))>>))
ZipCorrupt == MkFile(<<"k">> \o ExtZip, 14, JunkData)

BatchFiles == {RawGood, RawJunk, ZipGood, ZipMixed, ZipNoMeta, ZipCorrupt}

BatchInputs == UNION {[1..n -> BatchFiles] : n \in 1..MaxBatch}

\* formData.append("replayFile", file); fetch("/api/parse-replay", {method: "POST", ...})
PostRequest(file) ==
  [method |-> "POST", malformed |-> FALSE,
   replayFile |-> <<Upload(file.name, file.size, file.content)>>]

\* response.ok
ResponseOk(r) == r.status >= 200 /\ r.status <= 299

\* data && Array.isArray(data.results)
HasResults(data) == "results" \in DOMAIN data

\* result.parsed is there (a result either has parsed or error)
HasParsed(result) == "parsed" \in DOMAIN result

\* The loop over data.results: the parsed replays, and the names pushed to
\* errorFiles.
ParsedOf(rs) ==
  LET ok == SelectSeq(rs, HasParsed) IN [i \in 1..Len(ok) |-> ok[i].parsed]

FailedOf(rs) ==
  LET bad == SelectSeq(rs, LAMBDA r : ~HasParsed(r)) IN
  [i \in 1..Len(bad) |-> bad[i].filename]

\* replay.metadata.players[0] and [1] have names.code
PlayersOk(replay) ==
  /\ "metadata" \in DOMAIN replay
  /\ Len(replay.metadata.players) >= 2

\* The connect codes in the order playerCounts meets them.
RECURSIVE CodesOf(_)
CodesOf(replays) ==
  IF replays = <<>> THEN <<>>
  ELSE <<Head(replays).metadata.players[1], Head(replays).metadata.players[2]>>
         \o CodesOf(Tail(replays))

CountOf(codes, c) == Cardinality({i \in 1..Len(codes) : codes[i] = c})

MostFrequentPlayerFirstMet(replays) ==
  LET codes == CodesOf(replays) IN
  IF codes = <<>> THEN "" ELSE codes[1]

\* Object.entries(playerCounts).reduce((max, curr) => curr[1] > max[1] ? curr : max,
\*                                     ["", 0])[0]
MostFrequentPlayer(replays) ==
  LET codes == CodesOf(replays) IN
  IF codes = <<>> THEN ""
  ELSE codes[CHOOSE i \in 1..Len(codes) :
               /\ \A j \in 1..Len(codes) : CountOf(codes, codes[j]) <= CountOf(codes, codes[i])
               /\ \A j \in 1..(i - 1) : CountOf(codes, codes[j]) < CountOf(codes, codes[i])]

\* mostFrequentPlayer || null
OrNull(code) == IF code = "" THEN NullPlayer ELSE code

\* for (const file of files): the loop moves on to the next file.
NextIndexRetry(i) == i

NextIndex(i) == i + 1

\* A handler that ends without its finally block.
FinallyNoReset(how) ==
  /\ bpc' = "idle"
  /\ lastBatch' = how
  /\ UNCHANGED <<loading, progress>>

\* finally { setLoading(false); setProgress({current: 0, total: 0}) }
Finally(how) ==
  /\ loading' = FALSE
  /\ progress' = [current |-> 0, total |-> 0]
  /\ bpc' = "idle"
  /\ lastBatch' = how

\* catch (err) { setError("Error parsing replay files. ...") } finally {...}
CatchUpload ==
  /\ error' = GenericUploadError
  /\ Finally("threw")

\* handleFileUpload(files), up to the loop.  "Analyze Replays" is rendered
\* while no replay is loaded and files are selected, and is disabled while
\* loading.
\* The buttons that start a batch carry disabled={loading}; a disabled button
\* delivers no click.
DisabledNever(isLoading) == FALSE

Disabled(isLoading) == isLoading

StartUpload ==
  /\ ~Disabled(loading)
  /\ Len(replayDataList) = 0
  /\ \E files \in BatchInputs :
       /\ bFiles' = files
       /\ progress' = [current |-> 0, total |-> Len(files)]
  /\ batches' = batches + 1
  /\ bKind' = "upload"
  /\ loading' = TRUE
  /\ error' = NoError
  /\ newReplayDataList' = <<>>
  /\ successCount' = 0
  /\ errorFiles' = <<>>
  /\ bIdx' = 1
  /\ sent' = <<>>
  /\ received' = <<>>
  /\ lastBatch' = "running"
  /\ bpc' = "loop"
  /\ UNCHANGED <<pageVersion, replayDataList, selectedPlayer, inFlight,
                 pickerVars, srvVars, sdVars>>

\* The loop takes its next file and awaits fetch(...): the request reaches
\* the endpoint, or fetch rejects and the loop is left through catch.
UploadFetch ==
  /\ bpc = "loop"
  /\ bKind = "upload"
  /\ bIdx <= Len(bFiles)
  /\ \E netOk \in BOOLEAN :
       IF netOk
       THEN /\ Receive(PostRequest(bFiles[bIdx]))
            /\ sent' = Append(sent, bFiles[bIdx])
            /\ inFlight' = inFlight + 1
            /\ bpc' = "awaiting"
            /\ UNCHANGED <<loading, error, progress, lastBatch>>
       ELSE /\ CatchUpload
            /\ UNCHANGED <<srvVars, sent, inFlight>>
  /\ UNCHANGED <<pageVersion, replayDataList, selectedPlayer, bKind, bFiles, bIdx,
                 newReplayDataList, successCount, errorFiles, received, batches,
                 pickerVars, sdVars>>

\* The response arrives and the loop body runs to its end.
UploadReturn ==
  /\ bpc = "awaiting"
  /\ bKind = "upload"
  /\ hpc = "done"
  /\ LET file == bFiles[bIdx]
         response == responses[Len(responses)]
         data == response.body
     IN
     /\ received' = Append(received, [file |-> file, response |-> response])
     /\ inFlight' = inFlight - 1
     /\ IF pageVersion = "current"
        THEN /\ IF ~ResponseOk(response)
                THEN /\ errorFiles' = Append(errorFiles, file.name)
                     /\ progress' = [progress EXCEPT !.current = successCount + 1]
                     /\ UNCHANGED <<newReplayDataList, successCount>>
                ELSE /\ IF HasResults(data)
                        THEN /\ newReplayDataList' =
                                  newReplayDataList \o ParsedOf(data.results)
                             /\ successCount' = successCount + Len(ParsedOf(data.results))
                             /\ errorFiles' = errorFiles \o FailedOf(data.results)
                        ELSE /\ errorFiles' = Append(errorFiles, file.name)
                             /\ UNCHANGED <<newReplayDataList, successCount>>
                     /\ progress' =
                          [progress EXCEPT !.current = successCount' + Len(errorFiles')]
             /\ bIdx' = NextIndex(bIdx)
             /\ bpc' = "loop"
             /\ UNCHANGED <<loading, error, lastBatch>>
        ELSE IF ~ResponseOk(response)
             THEN /\ CatchUpload
                  /\ UNCHANGED <<newReplayDataList, successCount, errorFiles, bIdx>>
             ELSE /\ newReplayDataList' = Append(newReplayDataList, data)
                  /\ successCount' = successCount + 1
                  /\ progress' = [progress EXCEPT !.current = successCount + 1]
                  /\ bIdx' = NextIndex(bIdx)
                  /\ bpc' = "loop"
                  /\ UNCHANGED <<loading, error, lastBatch, errorFiles>>
  /\ UNCHANGED <<pageVersion, replayDataList, selectedPlayer, bKind, bFiles, sent,
                 batches, pickerVars, srvVars, sdVars>>

\* After the loop: setReplayDataList(prev => [...prev, ...newReplayDataList]);
\* the current revision then selects the most frequent player (which throws
\* on a replay without two metadata players) and reports errorFiles.
UploadFinish ==
  /\ bpc = "loop"
  /\ bKind = "upload"
  /\ bIdx > Len(bFiles)
  /\ replayDataList' = replayDataList \o newReplayDataList
  /\ IF pageVersion = "current"
     THEN IF \A i \in 1..Len(newReplayDataList) : PlayersOk(newReplayDataList[i])
          THEN /\ selectedPlayer' = OrNull(MostFrequentPlayer(newReplayDataList))
               /\ error' = IF Len(errorFiles) > 0 THEN FailedFilesError(errorFiles)
                           ELSE error
               /\ Finally("completed")
          ELSE /\ CatchUpload
               /\ UNCHANGED selectedPlayer
     ELSE /\ Finally("completed")
          /\ UNCHANGED <<selectedPlayer, error>>
  /\ UNCHANGED <<pageVersion, bKind, bFiles, bIdx, newReplayDataList, successCount,
                 errorFiles, sent, received, inFlight, batches,
                 pickerVars, srvVars, sdVars>>

\* ------------------------------------------------------------------------
\* The page: handleLoadSampleData
\* ------------------------------------------------------------------------
\* The sample replays, named here by the time of day in their names
\* ("Game_20250702T121017.slp" is <<"1","2","1","0","1","7">> \o ".slp").
SAMPLE_SLP_FILES ==
  << <<"1", "2", "1", "0", "1", "7">> \o ExtSlp,
     <<"1", "2", "1", "3", "4", "8">> \o ExtSlp,
     <<"1", "2", "1", "7", "3", "8">> \o ExtSlp,
     <<"1", "2", "2", "2", "1", "5">> \o ExtSlp,
     <<"1", "2", "2", "5", "2", "0">> \o ExtSlp,
     <<"1", "2", "2", "7", "4", "9">> \o ExtSlp,
     <<"1", "2", "3", "0", "3", "1">> \o ExtSlp,
     <<"1", "2", "3", "3", "4", "6">> \o ExtSlp,
     <<"1", "2", "3", "7", "4", "4">> \o ExtSlp,
     <<"1", "2", "4", "0", "3", "6">> \o ExtSlp >>

\* SAMPLE_SLP_FILES.slice(0, 10)
FilesToLoad == Slice(SAMPLE_SLP_FILES, 10)

\* What /assets/slp-demo-data/ serves for a sample name when it serves it:
\* a replay of one of two games.
SampleAsset(i) == IF i % 2 = 1 THEN SlpData(Game1) ELSE SlpData(Game2)

Lower(ch) ==
  IF ch = "S" THEN "s" ELSE IF ch = "L" THEN "l" ELSE IF ch = "P" THEN "p" ELSE ch

\* fileName.replace(/\.slp$/i, ".zip")
ReplaceSlpExt(s) ==
  IF Len(s) >= 4 /\ [i \in 1..4 |-> Lower(s[Len(s) - 4 + i])] = ExtSlp
  THEN SubSeq(s, 1, Len(s) - 4) \o ExtZip
  ELSE s

\* zipSync({[fileName]: bytes}) wrapped in a File named after the replay; the
\* earlier revision wraps the blob itself.
SampleFile(version, i) ==
  LET fileName == FilesToLoad[i] IN
  IF version = "current"
  THEN MkFile(ReplaceSlpExt(fileName), 20 + i,
              ZipData(<<Entry(fileName, SampleAsset(i))>>))
  ELSE MkFile(fileName, 20 + i, SampleAsset(i))

SampleError == [text |-> "Error loading sample data.", files |-> <<>>]

\* newReplayDataList.push(x) where x is undefined
Undefined == [undefined |-> TRUE]

\* catch (err) { setError("Error loading sample data.") } finally {...}
CatchSample ==
  /\ error' = SampleError
  /\ Finally("threw")

\* handleLoadSampleData(), up to the loop.  "Load Sample Data" is rendered
\* while no replay is loaded, and is disabled while loading.
StartSample ==
  /\ ~Disabled(loading)
  /\ Len(replayDataList) = 0
  /\ bFiles' = [i \in 1..Len(FilesToLoad) |-> SampleFile(pageVersion, i)]
  /\ progress' = [current |-> 0, total |-> Len(FilesToLoad)]
  /\ batches' = batches + 1
  /\ bKind' = "sample"
  /\ loading' = TRUE
  /\ error' = NoError
  /\ newReplayDataList' = <<>>
  /\ successCount' = 0
  /\ errorFiles' = <<>>
  /\ bIdx' = 1
  /\ sent' = <<>>
  /\ received' = <<>>
  /\ lastBatch' = "running"
  /\ bpc' = "loop"
  /\ UNCHANGED <<pageVersion, replayDataList, selectedPlayer, inFlight,
                 pickerVars, srvVars, sdVars>>

\* The loop takes its next name: the asset is fetched (res.ok or not, or the
\* fetch rejects), wrapped into a File and posted.
SampleFetch ==
  /\ bpc = "loop"
  /\ bKind = "sample"
  /\ bIdx <= Len(bFiles)
  /\ \E assetOk \in BOOLEAN :
       IF assetOk
       THEN /\ Receive(PostRequest(bFiles[bIdx]))
            /\ sent' = Append(sent, bFiles[bIdx])
            /\ inFlight' = inFlight + 1
            /\ bpc' = "awaiting"
            /\ UNCHANGED <<loading, error, progress, lastBatch>>
       ELSE /\ CatchSample
            /\ UNCHANGED <<srvVars, sent, inFlight>>
  /\ UNCHANGED <<pageVersion, replayDataList, selectedPlayer, bKind, bFiles, bIdx,
                 newReplayDataList, successCount, errorFiles, received, batches,
                 pickerVars, sdVars>>

\* The response arrives: a response that is not OK throws; the current
\* revision pushes data.results[0].parsed, the earlier one data.
SampleReturn ==
  /\ bpc = "awaiting"
  /\ bKind = "sample"
  /\ hpc = "done"
  /\ LET file == bFiles[bIdx]
         response == responses[Len(responses)]
         data == response.body
         throws == \/ ~ResponseOk(response)
                   \/ /\ pageVersion = "current"
                      /\ (~HasResults(data) \/ Len(data.results) = 0)
         pushed == IF pageVersion = "current"
                   THEN IF HasParsed(data.results[1]) THEN data.results[1].parsed
                        ELSE Undefined
                   ELSE data
     IN
     /\ received' = Append(received, [file |-> file, response |-> response])
     /\ inFlight' = inFlight - 1
     /\ IF throws
        THEN /\ CatchSample
             /\ UNCHANGED <<newReplayDataList, successCount, bIdx>>
        ELSE /\ newReplayDataList' = Append(newReplayDataList, pushed)
             /\ successCount' = successCount + 1
             /\ progress' = [progress EXCEPT !.current = successCount + 1]
             /\ bIdx' = NextIndex(bIdx)
             /\ bpc' = "loop"
             /\ UNCHANGED <<loading, error, lastBatch>>
  /\ UNCHANGED <<pageVersion, replayDataList, selectedPlayer, bKind, bFiles, sent,
                 errorFiles, batches, pickerVars, srvVars, sdVars>>

\* After the loop: setReplayDataList(prev => [...prev, ...newReplayDataList]),
\* then the most frequent player is selected, which throws on an entry
\* without two metadata players.
SampleFinish ==
  /\ bpc = "loop"
  /\ bKind = "sample"
  /\ bIdx > Len(bFiles)
  /\ replayDataList' = replayDataList \o newReplayDataList
  /\ IF \A i \in 1..Len(newReplayDataList) : PlayersOk(newReplayDataList[i])
     THEN /\ selectedPlayer' = OrNull(MostFrequentPlayer(newReplayDataList))
          /\ Finally("completed")
          /\ UNCHANGED error
     ELSE /\ CatchSample
          /\ UNCHANGED selectedPlayer
  /\ UNCHANGED <<pageVersion, bKind, bFiles, bIdx, newReplayDataList, successCount,
                 errorFiles, sent, received, inFlight, batches,
                 pickerVars, srvVars, sdVars>>

\* "Clear All Replays".  lastBatch tells how the latest batch ended only
\* while what it loaded is still on the page.
ClearAllReplays ==
  /\ Len(replayDataList) > 0
  /\ replayDataList' = <<>>
  /\ selectedPlayer' = NullPlayer
  /\ lastBatch' = IF bpc = "idle" THEN "none" ELSE lastBatch
  /\ UNCHANGED <<pageVersion, loading, error, progress, bpc, bKind, bFiles, bIdx,
                 newReplayDataList, successCount, errorFiles, sent, received,
                 inFlight, batches, pickerVars, srvVars, sdVars>>

PageInit ==
  /\ pageVersion \in PageVersions
  /\ replayDataList = <<>>
  /\ loading = FALSE
  /\ error = NoError
  /\ selectedPlayer = NullPlayer
  /\ progress = [current |-> 0, total |-> 0]
  /\ bpc = "idle"
  /\ bKind = "none"
  /\ bFiles = <<>>
  /\ bIdx = 1
  /\ newReplayDataList = <<>>
  /\ successCount = 0
  /\ errorFiles = <<>>
  /\ sent = <<>>
  /\ received = <<>>
  /\ inFlight = 0
  /\ lastBatch = "none"
  /\ batches = 0

\* The steps of the endpoint's handler once a request has reached it.
HandlerSteps ==
  \/ FormParse
  \/ Validate
  \/ ReadUnzip
  \/ WriteEntry
  \/ ParseEntry
  \/ UnlinkEntry
  \/ ParseSlp
  \/ Cleanup

\* PageSpec follows the first batch after the page has loaded.
PageStep ==
  \/ (batches = 0 /\ StartUpload)
  \/ UploadFetch
  \/ UploadReturn
  \/ UploadFinish
  \/ (batches = 0 /\ StartSample)
  \/ SampleFetch
  \/ SampleReturn
  \/ SampleFinish
  \/ ClearAllReplays
  \/ HandlerSteps

PageNext == PageStep /\ UNCHANGED otherVars

\* The steps a started batch takes by itself: each awaited fetch settles
\* (with a response or a rejection), the endpoint answers, and the code
\* after an await resumes.
BatchSteps ==
  \/ UploadFetch
  \/ UploadReturn
  \/ UploadFinish
  \/ SampleFetch
  \/ SampleReturn
  \/ SampleFinish
  \/ HandlerSteps

EmptyFs == [p \in {} |-> NoData]

ServerInit ==
  /\ reqCount = 0
  /\ faultsLeft = MaxFaults
  /\ handlerVersion \in HandlerVersions
  /\ appEnv \in {"development", "production"}
  /\ req = NoReq
  /\ hpc = "idle"
  /\ upFiles = <<>>
  /\ fsys = EmptyFs
  /\ entries = <<>>
  /\ results = <<>>
  /\ tempPath = NoPath
  /\ responses = <<>>
  /\ resolved = FALSE
  /\ srvLog = <<>>

ServerStep ==
  \/ HandlerStart
  \/ HandlerSteps
  \/ SampleDataHandler

ServerNext == ServerStep /\ UNCHANGED otherVars

PickerInit ==
  /\ pickerVersion \in PickerVersions
  /\ selectedFiles = <<>>
  /\ lastAlert = ""
  /\ pickerEvents = 0
  /\ lastPick = [op |-> "none", isNull |-> FALSE, files |-> <<>>, prev |-> <<>>]

PickerStep == handleDrop \/ handleFileChange \/ ClearSelection

PickerNext == PickerStep /\ UNCHANGED otherVars

\* ------------------------------------------------------------------------
\* The statistics components under changing props
\* ------------------------------------------------------------------------
\* Each change of a dependency re-runs the effects that depend on it.
AggRender(list, sel, char, axes) ==
  /\ aggList' = list
  /\ aggSelected' = sel
  /\ aggCharacter' = char
  /\ aggAxes' = axes
  /\ cbStats' = CharacterBreakdownEffect(cbStats, list, sel)
  /\ muStats' = MatchupAnalysisEffect(muStats, list, sel, char)
  /\ sumStats' = ReplayDataSummaryEffect(sumStats, list, sel, axes)

\* a further replay has been parsed and appended to replayDataList
AggAddReplay ==
  /\ Len(aggList) < MaxReplays
  /\ \E r \in AggReplays : AggRender(Append(aggList, r), aggSelected, aggCharacter, aggAxes)

\* the player filter changes
AggSelectPlayer ==
  \E sel \in AggSelections \ {aggSelected} : AggRender(aggList, sel, aggCharacter, aggAxes)

AggInit ==
  /\ aggList = <<>>
  /\ aggSelected = NullSel
  /\ aggCharacter = NoCharacter
  /\ aggAxes = NoAxes
  /\ cbStats = Unset
  /\ muStats = Unset
  /\ sumStats = Unset

\* MatchupAnalysis's character filter changes
AggSelectCharacter ==
  \E char \in ({NoCharacter} \cup {1, 2}) \ {aggCharacter} :
    AggRender(aggList, aggSelected, char, aggAxes)

\* the summary's axes are chosen
AggSetAxes ==
  /\ aggAxes = NoAxes
  /\ AggRender(aggList, aggSelected, aggCharacter, ChosenAxes)

AggStep == AggAddReplay \/ AggSelectPlayer \/ AggSelectCharacter \/ AggSetAxes

AggNext == AggStep /\ UNCHANGED <<pickerVars, srvVars, sdVars, pageVars, concVars, medVars>>

vars == <<pickerVars, srvVars, sdVars, pageVars, otherVars>>

Init == PickerInit /\ ServerInit /\ SampleDataInit /\ PageInit /\ ConcInit /\ AggInit /\ MedianInit

PickerSpec == Init /\ [][PickerNext]_vars

ServerSpec == Init /\ [][ServerNext]_vars

PageSpec == Init /\ [][PageNext]_vars

\* A started batch is not left waiting for ever: the browser settles every
\* fetch and resumes the handler after each await.  The picker's revision
\* and the directory of the endpoint's temp files have no part in a batch.
PageFairInit == Init /\ pickerVersion = "capped" /\ appEnv = "production"

\* At most one file operation of the endpoint fails while the batch runs.
PageFairNext == PageNext /\ faultsLeft' >= MaxFaults - 1

PageFairSpec ==
  /\ PageFairInit
  /\ [][PageFairNext]_vars
  /\ WF_vars(BatchSteps /\ UNCHANGED otherVars /\ faultsLeft' >= MaxFaults - 1)

\* The page over several batches in a row: a batch button is clicked whenever
\* it is rendered and enabled, up to MaxStarts times.
RepeatInputs == {<<RawGood>>, <<RawJunk>>, <<ZipGood, ZipMixed>>}

RepeatStep ==
  \/ (batches < MaxStarts /\ bFiles' \in RepeatInputs /\ StartUpload)
  \/ UploadFetch
  \/ UploadReturn
  \/ UploadFinish
  \/ (batches < MaxStarts /\ StartSample)
  \/ SampleFetch
  \/ SampleReturn
  \/ SampleFinish
  \/ ClearAllReplays
  \/ HandlerSteps

RepeatNext == RepeatStep /\ UNCHANGED otherVars /\ faultsLeft' >= MaxFaults - 1

RepeatSpec == PageFairInit /\ [][RepeatNext]_vars

ConcSpec == Init /\ [][ConcNext]_vars

\* Once a request has reached the handler its steps are taken: the 405
\* check is synchronous, formidable calls the callback when the body has
\* ended or failed, and the callback's file operations and
\* parseSlippiReplay are synchronous calls that return or throw.
ServerFairSpec ==
  Init /\ [][ServerNext]_vars /\ WF_vars(HandlerSteps /\ UNCHANGED otherVars)

\* The statistics components do not depend on the revision of the page or
\* of the endpoint.
AggSpecInit ==
  /\ Init
  /\ pickerVersion = "capped"
  /\ handlerVersion = "zip"
  /\ pageVersion = "current"
  /\ appEnv = "production"

AggSpec == AggSpecInit /\ [][AggNext]_vars

MedianSpec == AggSpecInit /\ [][MedianNext]_vars

\* ------------------------------------------------------------------------
\* Properties of the upload endpoint and of the sample-data endpoint
\* ------------------------------------------------------------------------
Done == hpc = "done"

LastResponse == responses[Len(responses)]

HasEv(e) == \E i \in 1..Len(srvLog) : srvLog[i].ev = e

TenMB == 10 * 1024 * 1024

IsPost == req.method = "POST"

HasUpload == Len(req.replayFile) >= 1

FirstUpload == req.replayFile[1]

ParsedObject(g) == [metadata |-> g.metadata, settings |-> g.settings, stats |-> g.stats]

IsParsedObject(body) == DOMAIN body = {"metadata", "settings", "stats"}

IsResultsBody(body) == DOMAIN body = {"results"}

IsMessageBody(body) == DOMAIN body = {"message"}

AnsweredOnce(status) == Len(responses) = 1 /\ LastResponse.status = status

FileOpThrew == HasEv("readThrow") \/ HasEv("unzipThrow") \/ HasEv("writeThrow")

\* C1 as stated (for requests whose form parsed and on which no file
\* operation threw): the endpoint answers 200 with the parsed object to a
\* parsable *.slp upload and 200 with a results array to a *.zip upload.
C1_AcceptsSlpAndZip ==
  (Done /\ IsPost /\ HasUpload /\ HasEv("formParse") /\ ~FileOpThrew) =>
     /\ (EndsWith(FirstUpload.originalFilename, ExtSlp) /\ FirstUpload.content.kind = "slp")
          => /\ AnsweredOnce(200)
             /\ IsParsedObject(LastResponse.body)
     /\ EndsWith(FirstUpload.originalFilename, ExtZip)
          => /\ AnsweredOnce(200)
             /\ IsResultsBody(LastResponse.body)

\* C1 (amended): each revision of the endpoint accepts one kind of file.
\* When form parsing succeeds, the slp revision answers a parsable *.slp
\* upload whose parse does not throw 200 with its parsed
\* {metadata, settings, stats} and a *.zip upload
\* 400; the zip revision answers a *.zip upload that is read, unzipped and
\* written to temp files without an exception 200 with {results: [...]}, and
\* a *.slp upload 400.
C1_EachRevisionAcceptsOneKind ==
  (Done /\ IsPost /\ HasUpload /\ HasEv("formParse")) =>
     /\ (handlerVersion = "slp" /\ EndsWith(FirstUpload.originalFilename, ExtSlp)
           /\ FirstUpload.content.kind = "slp" /\ ~HasEv("parseThrow"))
          => /\ AnsweredOnce(200)
             /\ IsParsedObject(LastResponse.body)
             /\ LastResponse.body = ParsedObject(FirstUpload.content.game)
     /\ (handlerVersion = "slp" /\ EndsWith(FirstUpload.originalFilename, ExtZip))
          => AnsweredOnce(400)
     /\ (handlerVersion = "zip" /\ EndsWith(FirstUpload.originalFilename, ExtZip)
           /\ ~FileOpThrew)
          => /\ AnsweredOnce(200)
             /\ IsResultsBody(LastResponse.body)
     /\ (handlerVersion = "zip" /\ EndsWith(FirstUpload.originalFilename, ExtSlp))
          => AnsweredOnce(400)

C1_Witness ==
  /\ Done /\ IsPost /\ HasUpload /\ HasEv("formParse")
  /\ handlerVersion = "zip"
  /\ EndsWith(FirstUpload.originalFilename, ExtZip)
  /\ AnsweredOnce(200)
  /\ IsResultsBody(LastResponse.body)
  /\ Len(LastResponse.body.results) = 2

C1_WitnessSlp ==
  /\ Done /\ IsPost /\ HasUpload /\ HasEv("formParse")
  /\ handlerVersion = "slp"
  /\ AnsweredOnce(200)
  /\ LastResponse.body = ParsedObject(Game1)

\* C3: a request whose method is not POST is answered 405 "Method not
\* allowed", and nothing else happens for it: no form is parsed, no file is
\* read, written or deleted, the parser is not called.
C3_NonPostIs405 ==
  (req # NoReq /\ ~IsPost) =>
     /\ Done
     /\ responses = Respond(405, MsgBody("Method not allowed"))
     /\ srvLog = <<Ev("respond", NoPath)>>
     /\ fsys = EmptyFs
     /\ upFiles = <<>>

C3_Witness ==
  /\ Done /\ req.method = "GET" /\ HasUpload /\ ~req.malformed
  /\ EndsWith(FirstUpload.originalFilename, ExtZip)
  /\ LastResponse.status = 405

\* The extension each revision is written to accept.
ClaimedExt == IF handlerVersion = "zip" THEN ExtZip ELSE ExtSlp

NotAcceptable ==
  \/ ~HasUpload
  \/ FirstUpload.originalFilename = NoName
  \/ ~EndsWith(FirstUpload.originalFilename, ClaimedExt)

NoParseNoEntryWrite ==
  ~HasEv("parse") /\ ~HasEv("parseThrow") /\ ~HasEv("write") /\ ~HasEv("writeThrow")

\* C4 as stated: every POST without an acceptable first replayFile is
\* answered 400.
C4_UnacceptableIs400 ==
  (Done /\ IsPost /\ NotAcceptable) => (AnsweredOnce(400) /\ NoParseNoEntryWrite)

\* C4 (amended): a POST whose form parsing succeeds and that carries no
\* replayFile, or whose first replayFile has no original filename or one
\* without the accepted extension, is answered 400; the parser is not
\* called and no per-entry temp file is written.
C4_ParsedFormUnacceptableIs400 ==
  (IsPost /\ HasEv("formParse") /\ NotAcceptable /\ hpc # "validate") =>
     /\ Done
     /\ AnsweredOnce(400)
     /\ IsMessageBody(LastResponse.body)
     /\ NoParseNoEntryWrite

C4_Witness ==
  /\ Done /\ IsPost /\ HasEv("formParse") /\ HasUpload
  /\ FirstUpload.originalFilename = NameUpperSlp
  /\ FirstUpload.content.kind = "slp"
  /\ AnsweredOnce(400)

\* C5: a POST on which form parsing fails, or on which reading or unzipping
\* the upload, writing a temp file or (slp revision) parsing the replay
\* throws, is answered 500 with a message string; no exception leaves the
\* handler without a response.
FormParsingFails ==
  \/ req.malformed
  \/ \E i \in 1..Len(req.replayFile) : req.replayFile[i].size > TenMB

C5_FailuresAre500 ==
  /\ hpc # "crashed"
  /\ (IsPost /\ hpc \notin {"idle", "form"} /\ FormParsingFails)
       => (Done /\ AnsweredOnce(500) /\ IsMessageBody(LastResponse.body))
  /\ (FileOpThrew \/ (handlerVersion = "slp" /\ HasEv("parseThrow")))
       => (Done /\ AnsweredOnce(500) /\ IsMessageBody(LastResponse.body))

C5_Witness ==
  /\ Done /\ HasEv("writeThrow") /\ HasEv("unlink")
  /\ AnsweredOnce(500)

\* C6 as stated: every error response of both API endpoints carries its
\* text in a message field.
ErrorStatus(r) == r.status \in {400, 405, 500}

C6_ErrorsCarryMessage ==
  /\ \A i \in 1..Len(responses) :
       ErrorStatus(responses[i]) => "message" \in DOMAIN responses[i].body
  /\ \A i \in 1..Len(sdResponses) :
       ErrorStatus(sdResponses[i]) => "message" \in DOMAIN sdResponses[i].body

\* The sample-data endpoint has answered 500 with its {error: ...} body.
C6_Witness ==
  \E i \in 1..Len(sdResponses) :
     sdResponses[i].status = 500 /\ sdResponses[i].body = ListErrorBody

\* C7: an upload larger than 10 * 1024 * 1024 bytes is never read, unzipped
\* or handed to the parser, and its request is answered with an error
\* status, not 200.
Oversize == \E i \in 1..Len(req.replayFile) : req.replayFile[i].size > TenMB

C7_OversizeNeverParsed ==
  (req # NoReq /\ Oversize) =>
     /\ ~HasEv("read") /\ ~HasEv("readThrow")
     /\ ~HasEv("unzip") /\ ~HasEv("unzipThrow")
     /\ ~HasEv("parse") /\ ~HasEv("parseThrow")
     /\ hpc \in {"form", "done"}
     /\ Done => (Len(responses) = 1 /\ LastResponse.status \in {405, 500})

C7_Witness ==
  /\ Done /\ IsPost /\ ~req.malformed /\ HasUpload
  /\ FirstUpload.size = TenMB + 1
  /\ FirstUpload.originalFilename = (IF handlerVersion = "zip" THEN NameZip ELSE NameASlp)
  /\ FirstUpload.content.kind = (IF handlerVersion = "zip" THEN "zip" ELSE "slp")
  /\ AnsweredOnce(500)

\* ------------------------------------------------------------------------
\* Properties of the file picker
\* ------------------------------------------------------------------------
\* The names of FileLists that end in ".slp", written out.
SlpFileNames == {NameASlp, NameBSlp, NameCSlp}

LastValid == SelectSeq(lastPick.files, LAMBDA f : f.name \in SlpFileNames)

Added == lastPick.op \in {"drop", "change"} /\ ~lastPick.isNull

FirstN(s, n) == [i \in 1..(IF Len(s) < n THEN Len(s) ELSE n) |-> s[i]]

\* C8 as stated: the selected list never has more than 100 files, and an
\* addition keeps the first 100 of (previous files, then the new valid
\* files).
C8_AtMost100 ==
  /\ Len(selectedFiles) <= 100
  /\ (Added /\ Len(LastValid) > 0)
       => selectedFiles = FirstN(lastPick.prev \o LastValid, 100)

\* The revision without MAX_FILES holds 101 files after 99 and then 2 more
\* replays are added.
C8_Witness ==
  /\ pickerVersion = "uncapped"
  /\ Added
  /\ Len(lastPick.prev) = 99
  /\ Len(LastValid) = 2
  /\ Len(selectedFiles) = 101

\* C8 for the revision that defines MAX_FILES.
C8_CappedRevision == pickerVersion = "capped" => C8_AtMost100

C8_CappedWitness ==
  /\ pickerVersion = "capped"
  /\ Added
  /\ Len(lastPick.prev) = 99
  /\ Len(LastValid) = 2
  /\ Len(selectedFiles) = 100

\* C9: every selected file has a name ending in ".slp"; a drop or selection
\* adds none of its other files, and one without any ".slp" file leaves the
\* selected list as it was.
C9_OnlySlpSelected ==
  /\ \A i \in 1..Len(selectedFiles) : selectedFiles[i].name \in SlpFileNames
  /\ Added =>
       /\ \A i \in 1..Len(lastPick.files) :
            lastPick.files[i].name \notin SlpFileNames =>
              \A j \in 1..Len(selectedFiles) : selectedFiles[j] # lastPick.files[i]
       /\ Len(LastValid) = 0 => selectedFiles = lastPick.prev
       /\ \E k \in 0..Len(LastValid) :
            selectedFiles = lastPick.prev \o FirstN(LastValid, k)

C9_Witness ==
  /\ Added
  /\ Len(lastPick.files) = 4
  /\ Len(lastPick.prev) = 1
  /\ Len(selectedFiles) = 3

C9_WitnessNoSlp ==
  /\ Added
  /\ Len(lastPick.files) = 2
  /\ Len(lastPick.prev) = 1
  /\ selectedFiles = lastPick.prev

\* ------------------------------------------------------------------------
\* Properties of the batch loops
\* ------------------------------------------------------------------------
BatchEnded == bpc = "idle" /\ lastBatch \in {"completed", "threw"}

Range(s) == {s[i] : i \in 1..Len(s)}

\* What the responses of the batch say, read off the responses themselves.
FailedResponse(r) == r.status \notin 200..299 \/ "results" \notin DOMAIN r.body

FailedNamesOf(rcv) ==
  IF FailedResponse(rcv.response) THEN {rcv.file.name}
  ELSE {res.filename : res \in {x \in Range(rcv.response.body.results) :
                                  "parsed" \notin DOMAIN x}}

ParsedReplaysOf(rcv) ==
  IF FailedResponse(rcv.response) THEN <<>>
  ELSE LET ok == SelectSeq(rcv.response.body.results, LAMBDA x : "parsed" \in DOMAIN x)
       IN [i \in 1..Len(ok) |-> ok[i].parsed]

RECURSIVE AllParsed(_)
AllParsed(rcvs) ==
  IF rcvs = <<>> THEN <<>> ELSE ParsedReplaysOf(Head(rcvs)) \o AllParsed(Tail(rcvs))

IsPrefix(s, t) == Len(s) <= Len(t) /\ \A i \in 1..Len(s) : s[i] = t[i]

\* C2 as stated: when handleFileUpload finishes a batch, every failed file
\* and every result without parsed data is named in the error message, every
\* file after a failing one was still sent, and every parsed replay of the
\* batch is in replayDataList.
C2_FailuresReportedByName ==
  (BatchEnded /\ bKind = "upload") =>
     /\ \A i \in 1..Len(received) : FailedNamesOf(received[i]) \subseteq Range(error.files)
     /\ \A i \in 1..Len(received) :
          (FailedNamesOf(received[i]) # {} /\ i < Len(bFiles)) => Len(sent) > i
     /\ replayDataList = AllParsed(received)

\* The earlier revision leaves the loop at the first response that is not
\* OK: the file is not named and the second file is never sent.
C2_Witness ==
  /\ BatchEnded /\ bKind = "upload" /\ pageVersion = "earlier"
  /\ Len(bFiles) = 2
  /\ Len(sent) = 1
  /\ received[1].response.status = 400
  /\ error = GenericUploadError

\* The current revision has collected a failed file's name and then throws
\* while selecting the most frequent player: the name is not reported.
C2_WitnessCurrent ==
  /\ BatchEnded /\ bKind = "upload" /\ pageVersion = "current"
  /\ faultsLeft = MaxFaults
  /\ Len(bFiles) = 2 /\ Len(sent) = 2
  /\ Len(errorFiles) = 1
  /\ Len(replayDataList) = 1
  /\ error = GenericUploadError

\* The same, for batches of the current revision that end without an
\* exception.
C2_CurrentCompleted ==
  (BatchEnded /\ bKind = "upload" /\ pageVersion = "current" /\ lastBatch = "completed")
     => /\ C2_FailuresReportedByName
        /\ sent = bFiles

C2_CurrentCompletedWitness ==
  /\ BatchEnded /\ bKind = "upload" /\ pageVersion = "current"
  /\ lastBatch = "completed"
  /\ Len(bFiles) = 2
  /\ FailedResponse(received[1].response)
  /\ Len(replayDataList) = 1
  /\ Len(error.files) = 2

\* C10 as stated: each file of the batch is sent exactly once, in list
\* order, each request after the previous response, at most one in flight.
C10_EachFileSentExactlyOnce ==
  /\ inFlight <= 1
  /\ IsPrefix(sent, bFiles)
  /\ Len(sent) = Len(received) + inFlight
  /\ BatchEnded => sent = bFiles

\* C10 (amended): the files are sent in list order, each at most once and
\* never again (no retry), each request after the response to the previous
\* one, so at most one upload request is in flight; every file is sent
\* exactly once when the loop runs to its end.  A batch that is left through
\* catch never sends the files after the one that threw.
C10_SequentialNoRetry ==
  /\ inFlight \in {0, 1}
  /\ IsPrefix(sent, bFiles)
  /\ Len(sent) = Len(received) + inFlight
  /\ inFlight = 1 <=> bpc = "awaiting"
  /\ \A i \in 1..Len(received) : received[i].file = sent[i]
  /\ (BatchEnded /\ lastBatch = "completed") => sent = bFiles
  /\ (BatchEnded /\ lastBatch = "threw") =>
        (Len(sent) <= bIdx /\ Len(received) = Len(sent))

C10_Witness ==
  /\ bpc = "awaiting"
  /\ Len(bFiles) = 2
  /\ Len(sent) = 2
  /\ Len(received) = 1
  /\ FailedResponse(received[1].response)

C10_WitnessAborted ==
  /\ BatchEnded /\ lastBatch = "threw"
  /\ Len(bFiles) = 2
  /\ Len(sent) = 1

\* ------------------------------------------------------------------------
\* Properties of two requests handled at once
\* ------------------------------------------------------------------------
\* C11 as stated: no request overwrites, parses or deletes a temp file that
\* the other request wrote.
C11_NoForeignTempFile == cForeign = {}

\* Both requests unzip an entry named a.slp; the second one to run has
\* written its entry over the file the first one left behind.
C11_Witness ==
  /\ \A r \in ConcRequests : cpc[r] = "done" /\ Len(cResponses[r]) = 1
  /\ \E t \in cForeign : t.op = "write" /\ t.path = TempPath(appEnv, NameASlp)

\* While no file operation has thrown, the two requests never touch each
\* other's temp files, and each callback runs alone.
C11_DisjointWhileNoFault ==
  /\ faultsLeft = MaxFaults => cForeign = {}
  /\ \A r \in ConcRequests :
       cpc[r] \in {"write", "parse", "unlink", "cleanup"} => running = r

C11_DisjointWitness ==
  /\ faultsLeft = MaxFaults
  /\ \A r \in ConcRequests :
       /\ cpc[r] = "done"
       /\ cResponses[r][1].status = 200
       /\ Len(cResponses[r][1].body.results) = 2

\* ------------------------------------------------------------------------
\* Properties of the zip revision's results
\* ------------------------------------------------------------------------
AcceptedZip ==
  /\ Done /\ IsPost /\ HasUpload /\ HasEv("formParse")
  /\ handlerVersion = "zip"
  /\ FirstUpload.originalFilename = NameZip
  /\ FirstUpload.content.kind = "zip"
  /\ ~FileOpThrew

\* The element the claim gives an entry: its parsed replay, or the error.
ResultFor(name, data) ==
  IF data.kind = "slp"
  THEN [filename |-> name, parsed |-> ParsedObject(data.game)]
  ELSE [filename |-> name, error |-> "Failed to parse"]

\* One element per entry named *.slp, in entry order.
PerEntryResults(es) ==
  LET slp == SelectSeq(es, LAMBDA e : e.filename \in SlpFileNames) IN
  [i \in 1..Len(slp) |-> ResultFor(slp[i].filename, slp[i].data)]

\* The entries named *.slp at which a name occurs for the first time, and
\* the last entry of the same name.
FirstOccurrences(es) ==
  {i \in 1..Len(es) : /\ es[i].filename \in SlpFileNames
                      /\ \A j \in 1..(i - 1) : es[j].filename # es[i].filename}

NthOf(S, k) == CHOOSE i \in S : Cardinality({j \in S : j < i}) = k - 1

LastOfName(es, n) ==
  CHOOSE j \in 1..Len(es) :
    /\ es[j].filename = n
    /\ \A k \in (j + 1)..Len(es) : es[k].filename # n

PerNameResults(es) ==
  [k \in 1..Cardinality(FirstOccurrences(es)) |->
     LET n == es[NthOf(FirstOccurrences(es), k)].filename IN
     ResultFor(n, es[LastOfName(es, n)].data)]

\* C12 as stated (for zips that are read, unzipped and written without an
\* exception): the response is 200 and results has exactly one element per
\* entry named *.slp, in entry order.
C12_OneResultPerSlpEntry ==
  AcceptedZip =>
     /\ AnsweredOnce(200)
     /\ LastResponse.body = [results |-> PerEntryResults(FirstUpload.content.zipEntries)]

\* C12 (amended): for a zip that is read, unzipped and written to temp files
\* without an exception, the response is 200 and results has exactly one
\* element per distinct entry name ending in ".slp", in the order of the
\* names' first occurrence, built from the last entry of that name: either
\* {filename, parsed} or {filename, error: "Failed to parse"}, the latter
\* only when the parse of that entry threw.  Entries with
\* other names give no element, and a failed parse does not stop the later
\* entries from being parsed.
C12_OneResultPerSlpName ==
  AcceptedZip =>
     LET expected == PerNameResults(FirstUpload.content.zipEntries)
         got == LastResponse.body.results IN
     /\ AnsweredOnce(200)
     /\ DOMAIN LastResponse.body = {"results"}
     /\ Len(got) = Len(expected)
     /\ \A k \in 1..Len(got) :
          \/ got[k] = expected[k]
          \/ got[k] = [filename |-> expected[k].filename, error |-> "Failed to parse"]
     /\ ~HasEv("parseThrow") => got = expected
     /\ faultsLeft = MaxFaults => got = expected

\* The zip holds a.slp (junk), n.txt and b.slp: a failure, nothing, a parse.
C12_Witness ==
  /\ AcceptedZip
  /\ Len(FirstUpload.content.zipEntries) = 3
  /\ Len(LastResponse.body.results) = 2
  /\ "error" \in DOMAIN LastResponse.body.results[1]
  /\ "parsed" \in DOMAIN LastResponse.body.results[2]

\* The zip holds a.slp twice: one element stands for both entries.
C12_WitnessRepeatedName ==
  /\ AcceptedZip
  /\ Len(FirstUpload.content.zipEntries) = 3
  /\ Len(LastResponse.body.results) = 1
  /\ LastResponse.body.results[1].parsed = ParsedObject(Game2)

\* ------------------------------------------------------------------------
\* Properties of the sample-data listing
\* ------------------------------------------------------------------------
\* C13: the endpoint answers 200 with files = the directory's names that end
\* in ".slp", in directory order and no others, and 500 when the directory
\* cannot be read.
C13_ListsSlpNames ==
  /\ Len(sdResponses) = Len(sdReads)
  /\ \A i \in 1..Len(sdReads) :
       IF sdReads[i].ok
       THEN /\ sdResponses[i].status = 200
            /\ sdResponses[i].body =
                 [files |-> SelectSeq(sdReads[i].listing, LAMBDA n : n \in SlpFileNames)]
       ELSE sdResponses[i].status = 500

C13_Witness ==
  \E i \in 1..Len(sdReads) :
     /\ sdReads[i].ok
     /\ Len(sdReads[i].listing) = 3
     /\ sdResponses[i].body.files = <<NameASlp, NameBSlp>>

\* ------------------------------------------------------------------------
\* Properties of the statistics components
\* ------------------------------------------------------------------------
\* The position (1 or 2) in settings.players of the player whose connect
\* code is code, or Undef when the replay does not have that player.
PositionOfCode(replay, code) ==
  FindIndex([i \in 1..Len(replay.settings.players) |-> replay.metadata.players[replay.settings.players[i].playerIndex].names.code = code])

HasPlayer(replay, code) == PositionOfCode(replay, code) # Undef

CharacterOfCode(replay, code) ==
  replay.settings.players[PositionOfCode(replay, code)].characterId

\* the games the breakdown shows for character c
BreakdownGames(c) ==
  IF c \in DOMAIN cbStats.map THEN cbStats.map[c].totalGames ELSE 0

AggCharacters == {1, 2}

\* C14: with a selected player, the character breakdown counts each replay
\* that has that player as exactly one game under the character that player
\* used, and counts no replay that lacks the player, whatever playerIndex
\* values the two players have.
C14_SelectedCountedUnderOwnCharacter ==
  (aggSelected # NullSel /\ Len(aggList) > 0 /\ cbStats.state = "set") =>
    \A c \in AggCharacters :
      BreakdownGames(c) =
        Cardinality({k \in 1..Len(aggList) :
                       /\ HasPlayer(aggList[k], aggSelected)
                       /\ CharacterOfCode(aggList[k], aggSelected) = c})

\* A breakdown has been computed for a selected player over a list that has
\* a replay with that player on playerIndex 2 and a replay without them.
C14_Witness ==
  /\ aggSelected # NullSel
  /\ cbStats.state = "set"
  /\ \E k \in 1..Len(aggList) :
       /\ HasPlayer(aggList[k], aggSelected)
       /\ aggList[k].settings.players[PositionOfCode(aggList[k], aggSelected)].playerIndex = 2
  /\ \E k \in 1..Len(aggList) : ~HasPlayer(aggList[k], aggSelected)

\* C14, restricted to replays whose players have playerIndex 0 and 1.
C14_HoldsOnPortsZeroOne ==
  (/\ aggSelected # NullSel /\ Len(aggList) > 0 /\ cbStats.state = "set"
   /\ \A k \in 1..Len(aggList) : aggList[k].settings.players[1].playerIndex = 0) =>
    \A c \in AggCharacters :
      BreakdownGames(c) =
        Cardinality({k \in 1..Len(aggList) :
                       /\ HasPlayer(aggList[k], aggSelected)
                       /\ CharacterOfCode(aggList[k], aggSelected) = c})

\* The visits of the breakdown that reach the win/loss update of row c: the
\* replay index and the playerIndex value the component is processing.
BreakdownVisits(c) ==
  {v \in (1..Len(aggList)) \X (0..3) :
     LET replay == aggList[v[1]] IN
     /\ aggSelected = NullSel \/ SelectedPlayerIndex(replay, aggSelected) # -1
     /\ \E i \in 1..Len(PlayerIndices(replay, aggSelected)) :
          PlayerIndices(replay, aggSelected)[i] = v[2]
     /\ \E i \in 1..Len(replay.settings.players) :
          /\ replay.settings.players[i].playerIndex = v[2]
          /\ replay.settings.players[i].characterId = c
     /\ \E i \in 1..Len(replay.stats.overall) :
          replay.stats.overall[i].playerIndex = v[2]}

\* The replays that reach the win/loss update of the matchup row key.
MatchupGames(key) ==
  {k \in 1..Len(aggList) :
     LET replay == aggList[k]
         pi == MatchupPlayerIndex(replay, aggSelected, aggCharacter)
         oi == IF pi = 0 THEN 1 ELSE 0 IN
     /\ pi \in {0, 1}
     /\ replay.settings.players[pi + 1].characterId = key[1]
     /\ replay.settings.players[oi + 1].characterId = key[2]
     /\ aggCharacter # NoCharacter => key[1] = aggCharacter
     /\ \E i \in 1..2 : replay.stats.overall[i].playerIndex = pi
     /\ \E i \in 1..2 : replay.stats.overall[i].playerIndex = oi}

\* the owner of the last entry of the replay's stocks
LastStockOwner(replay) == replay.stats.stocks[Len(replay.stats.stocks)].playerIndex

\* C15: in every row of the character breakdown and of the matchup
\* analysis wins + losses = totalGames, and a game is put in the win bucket
\* exactly when the last entry of stocks belongs to the other player than
\* the one being processed.
C15_WinLossBuckets ==
  /\ cbStats.state = "set" =>
       \A c \in DOMAIN cbStats.rows :
         /\ cbStats.rows[c].wins + cbStats.rows[c].losses = cbStats.rows[c].totalGames
         /\ cbStats.rows[c].wins =
              Cardinality({v \in BreakdownVisits(c) : LastStockOwner(aggList[v[1]]) # v[2]})
         /\ cbStats.rows[c].losses =
              Cardinality({v \in BreakdownVisits(c) : LastStockOwner(aggList[v[1]]) = v[2]})
  /\ muStats.state = "set" =>
       \A key \in DOMAIN muStats.rows :
         /\ muStats.rows[key].wins + muStats.rows[key].losses = muStats.rows[key].totalGames
         /\ muStats.rows[key].wins =
              Cardinality({k \in MatchupGames(key) :
                 LastStockOwner(aggList[k]) #
                   MatchupPlayerIndex(aggList[k], aggSelected, aggCharacter)})
         /\ muStats.rows[key].losses =
              Cardinality({k \in MatchupGames(key) :
                 LastStockOwner(aggList[k]) =
                   MatchupPlayerIndex(aggList[k], aggSelected, aggCharacter)})

\* Both tables have a row with a win and a loss in it.
C15_Witness ==
  /\ cbStats.state = "set"
  /\ \E c \in DOMAIN cbStats.rows : cbStats.rows[c].wins > 0 /\ cbStats.rows[c].losses > 0
  /\ muStats.state = "set"
  /\ \E key \in DOMAIN muStats.rows :
       muStats.rows[key].wins > 0 /\ muStats.rows[key].losses > 0

\* the number of elements of data below v, and not above v
CountBelow(data, v) == Cardinality({i \in 1..Len(data) : data[i] < v})

CountUpTo(data, v) == Cardinality({i \in 1..Len(data) : data[i] <= v})

\* the k-th element of data in ascending order
KthSmallest(data, k) ==
  CHOOSE v \in DataValues :
    /\ \E i \in 1..Len(data) : data[i] = v
    /\ CountBelow(data, v) < k
    /\ k <= CountUpTo(data, v)

\* C16: calculateMedian returns the middle element of the ascending order
\* of its input when the length is odd and the mean of the two middle
\* elements when it is even, and leaves the input array as it was.
C16_MedianOfSortedCopy ==
  (medOut.state = "returned" /\ Len(medOut.arg) > 0) =>
    LET n == Len(medOut.arg) IN
    /\ medData = medOut.arg
    /\ n % 2 = 1 => medOut.result = [num |-> KthSmallest(medOut.arg, (n + 1) \div 2),
                                     den |-> 1]
    /\ n % 2 = 0 => medOut.result =
                      [num |-> KthSmallest(medOut.arg, n \div 2)
                                 + KthSmallest(medOut.arg, n \div 2 + 1),
                       den |-> 2]

\* calculateMedian has returned for an unsorted list of three.
C16_Witness ==
  /\ medOut.state = "returned"
  /\ Len(medOut.arg) = 3
  /\ medOut.arg[1] > medOut.arg[2]
  /\ medOut.arg[2] < medOut.arg[3]

\* calculateMedian has returned for an unsorted list of two.
C16_WitnessEven ==
  /\ medOut.state = "returned"
  /\ Len(medOut.arg) = 2
  /\ medOut.arg[1] > medOut.arg[2]

\* a displayed value whose denominator is d: never a division by zero, and
\* 0 when d is 0
Guarded(value, d) == value.den # 0 /\ (d = 0 => value = Zero)

GuardedBucket(b) ==
  /\ Guarded(b.xAvg, b.count)
  /\ Guarded(b.yAvg, b.count)
  /\ Guarded(b.xMedian, b.count)
  /\ Guarded(b.yMedian, b.count)
  /\ \A i \in 1..Len(b.averaged) : Len(b.averaged[i]) > 0

\* C17: no displayed aggregate is a division by zero: the win rates, the
\* averages and the damage ratio of the two tables and the per-bucket
\* averages and medians of the summary are 0 when their denominator is 0,
\* and calculateAverage is never called on an empty list.
C17_NoDivisionByZero ==
  /\ cbStats.state = "set" =>
       \A c \in DOMAIN cbStats.rows :
         LET m == cbStats.map[c]
             r == cbStats.rows[c] IN
         /\ Guarded(r.winRate, m.totalGames)
         /\ Guarded(r.averageDamagePerOpening, m.openingsCount)
         /\ Guarded(r.averageOpeningsPerKill, m.killsCount)
         /\ Guarded(r.averageInputsPerMinute, m.totalGames)
  /\ muStats.state = "set" =>
       \A key \in DOMAIN muStats.rows :
         LET m == muStats.map[key]
             r == muStats.rows[key] IN
         /\ Guarded(r.winRate, m.totalGames)
         /\ Guarded(r.averageDamageDealt, m.totalGames)
         /\ Guarded(r.averageDamageTaken, m.totalGames)
         /\ Guarded(r.damageRatio, m.totalDamageTaken)
  /\ sumStats.state = "set" =>
       GuardedBucket(sumStats.wins) /\ GuardedBucket(sumStats.losses)

\* Each component shows a value whose denominator is 0: a breakdown row
\* with games but no openings, a matchup row with games but no damage
\* taken, and a summary with an empty bucket.
C17_Witness ==
  /\ cbStats.state = "set"
  /\ \E c \in DOMAIN cbStats.map :
       cbStats.map[c].totalGames > 0 /\ cbStats.map[c].openingsCount = 0
  /\ muStats.state = "set"
  /\ \E key \in DOMAIN muStats.map :
       muStats.map[key].totalGames > 0 /\ muStats.map[key].totalDamageTaken = 0
  /\ sumStats.state = "set"
  /\ sumStats.wins.count = 0 \/ sumStats.losses.count = 0

\* A table has a row that was created but never counted a game.
C17_WitnessEmptyRow ==
  /\ muStats.state = "set"
  /\ \E key \in DOMAIN muStats.map : muStats.map[key].totalGames = 0

\* ------------------------------------------------------------------------
\* Properties of the temp files of the upload endpoint
\* ------------------------------------------------------------------------
\* the positions of the log where the handler wrote a per-entry temp file
WritePositions == {i \in 1..Len(srvLog) : srvLog[i].ev = "write"}

\* the handler has sent its response
Responded == hpc = "done" /\ Len(responses) = 1

\* Each written temp file is parsed next and an unlink of it is attempted
\* next after that, before anything else is written.
WriteParseUnlink(unlinkEvents) ==
  \A i \in WritePositions :
    /\ i + 1 <= Len(srvLog) =>
         /\ srvLog[i + 1].ev \in {"parse", "parseThrow"}
         /\ srvLog[i + 1].path = srvLog[i].path
    /\ i + 2 <= Len(srvLog) =>
         /\ srvLog[i + 2].ev \in unlinkEvents
         /\ srvLog[i + 2].path = srvLog[i].path
    /\ hpc \in {"write", "cleanup", "done"} => i + 2 <= Len(srvLog)

\* C18: for each ".slp" entry the handler writes the temp file, parses it
\* and deletes it, whether the parse succeeded or failed and before the next
\* entry is written, and when the response is sent no temp file written for
\* an entry of this request remains.
C18_TempFilesDeleted ==
  handlerVersion = "zip" =>
    /\ WriteParseUnlink({"unlink"})
    /\ Responded => \A i \in WritePositions : srvLog[i].path \notin DOMAIN fsys

\* C18 as the code has it: after each parse attempt the handler attempts the
\* unlink before it writes the next entry, and a temp file written for an
\* entry of this request remains at the response only if that unlinkSync
\* threw.
C18_TempFilesDeletedUnlessUnlinkThrows ==
  handlerVersion = "zip" =>
    /\ WriteParseUnlink({"unlink", "unlinkThrow"})
    /\ Responded =>
         \A i \in WritePositions :
           srvLog[i].path \in DOMAIN fsys =>
             i + 2 <= Len(srvLog) /\ srvLog[i + 2].ev = "unlinkThrow"

\* A zip with two ".slp" entries, one of which failed to parse, has been
\* answered and none of the two temp files is left.
C18_Witness ==
  /\ handlerVersion = "zip"
  /\ Responded
  /\ responses[1].status = 200
  /\ Cardinality(WritePositions) = 2
  /\ \E i \in 1..Len(srvLog) : srvLog[i].ev = "parseThrow"
  /\ \E i \in 1..Len(srvLog) : srvLog[i].ev = "parse"
  /\ \A i \in WritePositions : srvLog[i].path \notin DOMAIN fsys

\* C19: whenever the endpoint has sent its response for a request that
\* carried an upload, the upload's temp file has been deleted, on the 200
\* path and on every 400 and 500 path.
C19_UploadDeletedAtResponse ==
  (Responded /\ Len(upFiles) > 0) => upFiles[1].filepath \notin DOMAIN fsys

\* A request whose upload has the wrong extension has been answered 400 and
\* the upload's temp file is still there.
C19_Witness ==
  /\ Responded
  /\ responses[1].status = 400
  /\ Len(upFiles) > 0
  /\ upFiles[1].filepath \in DOMAIN fsys

\* C19 on the 200 path only: the upload is gone unless its unlinkSync threw.
C19_UploadDeletedOn200 ==
  (Responded /\ responses[1].status = 200 /\ upFiles[1].filepath \in DOMAIN fsys) =>
    srvLog[Len(srvLog) - 1] = Ev("unlinkThrow", upFiles[1].filepath)

\* ------------------------------------------------------------------------
\* Properties of the handler's responses
\* ------------------------------------------------------------------------
ResponseStatuses == {200, 400, 405, 500}

\* C20: every request eventually receives exactly one response, with
\* status 200, 400, 405 or 500, and the handler's promise resolves after
\* that response: no path sends two responses or leaves the request
\* unanswered.
C20_ExactlyOneResponse ==
  /\ [](/\ Len(responses) <= 1
        /\ \A i \in 1..Len(responses) : responses[i].status \in ResponseStatuses
        /\ resolved => Len(responses) = 1
        /\ hpc # "crashed")
  /\ (reqCount > 0) ~> (Len(responses) = 1 /\ resolved)

\* A request that went through the callback's catch branch has its one
\* response and the promise is resolved.
C20_Witness ==
  /\ reqCount > 0
  /\ Len(responses) = 1
  /\ responses[1].status = 500
  /\ responses[1].body = MsgBody("Error parsing replay file")
  /\ resolved

\* ------------------------------------------------------------------------
\* Properties of the page's batches
\* ------------------------------------------------------------------------
\* the replay a file decodes to, as the endpoint returns it
DecodedReplay(file) ==
  [metadata |-> file.content.game.metadata,
   settings |-> file.content.game.settings,
   stats |-> file.content.game.stats]

\* a file the picker keeps and the parser can parse
GoodSlpFile(file) == ValidFiles(<<file>>) = <<file>> /\ file.content.kind = "slp"

\* C21: a file named *.slp that the picker accepted and the parser can
\* parse is in replayDataList once the batch started by "Analyze Replays"
\* has completed, and is not among the failed files (no file operation of
\* the endpoint having failed).
C21_AcceptedSlpIsLoaded ==
  (bKind = "upload" /\ lastBatch = "completed" /\ faultsLeft = MaxFaults) =>
    \A i \in 1..Len(bFiles) :
      GoodSlpFile(bFiles[i]) =>
        /\ \E k \in 1..Len(replayDataList) : replayDataList[k] = DecodedReplay(bFiles[i])
        /\ \A k \in 1..Len(error.files) : error.files[k] # bFiles[i].name

\* The current page has completed a batch against the endpoint that takes
\* ".zip" only, and a parsable *.slp file of the batch is reported failed.
C21_Witness ==
  /\ pageVersion = "current"
  /\ handlerVersion = "zip"
  /\ bKind = "upload"
  /\ lastBatch = "completed"
  /\ faultsLeft = MaxFaults
  /\ \E i \in 1..Len(bFiles) :
       /\ GoodSlpFile(bFiles[i])
       /\ \E k \in 1..Len(error.files) : error.files[k] = bFiles[i].name

\* C21 for the earlier page against the endpoint that takes ".slp".
C21_EarlierPageSlpEndpoint ==
  (/\ pageVersion = "earlier" /\ handlerVersion = "slp"
   /\ bKind = "upload" /\ lastBatch = "completed" /\ faultsLeft = MaxFaults) =>
    \A i \in 1..Len(bFiles) :
      GoodSlpFile(bFiles[i]) =>
        \E k \in 1..Len(replayDataList) : replayDataList[k] = DecodedReplay(bFiles[i])

\* the files of the running batch that the loop has finished with
FilesHandled == bIdx - 1

\* C22: during a batch the progress display satisfies
\* 0 <= current <= total, and after each file has been handled current is
\* the number of files of the batch handled so far (so it never decreases
\* from one file to the next).
C22_ProgressCountsFiles ==
  (loading /\ bpc \in {"loop", "awaiting"}) =>
    /\ 0 <= progress.current
    /\ progress.current <= progress.total
    /\ progress.total = Len(bFiles)
    /\ progress.current = FilesHandled

\* The current page has handled two files, both refused by the endpoint,
\* and shows "Analyzed 1 of 2".
C22_Witness ==
  /\ pageVersion = "current"
  /\ bKind = "upload"
  /\ loading
  /\ FilesHandled = 2
  /\ Len(errorFiles) = 2
  /\ progress = [current |-> 1, total |-> 2]

\* C22 for the earlier page and for the sample loader of both pages.
C22_EarlierPageAndSamples ==
  (loading /\ bpc \in {"loop", "awaiting"} /\ (pageVersion = "earlier" \/ bKind = "sample")) =>
    /\ 0 <= progress.current
    /\ progress.current <= progress.total
    /\ progress.current = FilesHandled

NoProgress == [current |-> 0, total |-> 0]

\* C23: loading is true from the start of a batch (upload or sample load)
\* until it ends, and every batch eventually ends with loading false and
\* progress {current: 0, total: 0}, whether it succeeded, collected
\* per-file failures, or threw.
C23_LoadingUntilBatchEnds ==
  /\ [](bpc # "idle" => loading)
  /\ [](bpc = "idle" => ~loading /\ progress = NoProgress)
  /\ (bpc # "idle") ~> (bpc = "idle" /\ ~loading /\ progress = NoProgress)

\* A batch that threw after it had handled a file has ended with loading
\* and progress reset.
C23_Witness ==
  /\ lastBatch = "threw"
  /\ Len(received) > 0
  /\ bpc = "idle"
  /\ ~loading
  /\ progress = NoProgress

\* A batch that collected per-file failures has ended the same way.
C23_WitnessFailures ==
  /\ lastBatch = "completed"
  /\ Len(error.files) > 0
  /\ bpc = "idle"
  /\ ~loading
  /\ progress = NoProgress

\* C24: at most one batch runs at a time.  A batch is started (by "Analyze
\* Replays" or by "Load Sample Data") only in a state where no batch is in
\* progress and no request is outstanding, so the requests and the updates of
\* one batch are never interleaved with those of another; at most one request
\* is outstanding at any time, and while a batch runs the buttons are disabled.
C24_OneBatchAtATime ==
  /\ [](inFlight <= 1)
  /\ [](bpc # "idle" => Disabled(loading))
  /\ [][batches' # batches => (bpc = "idle" /\ inFlight = 0 /\ hpc \in {"idle", "done"})]_vars

\* A second batch is running after the first one ended.
C24_Witness ==
  /\ batches = MaxStarts
  /\ bpc = "awaiting"
  /\ inFlight = 1
  /\ Disabled(loading)

\* C25: after a batch that completed without throwing (an upload of the
\* current page, or a sample load), selectedPlayer is null when the batch
\* loaded no replay, and otherwise a connect code that appears among the
\* first two metadata players of the newly loaded replays at least as often
\* as every other connect code.
Appearances(code) ==
  Cardinality({p \in (1..Len(newReplayDataList)) \X {1, 2} :
                 newReplayDataList[p[1]].metadata.players[p[2]] = code})

LoadedCodes ==
  {newReplayDataList[p[1]].metadata.players[p[2]] :
     p \in (1..Len(newReplayDataList)) \X {1, 2}}

C25_SelectedPlayerIsMostFrequent ==
  (bpc = "idle" /\ lastBatch = "completed"
     /\ (pageVersion = "current" \/ bKind = "sample"))
    => IF newReplayDataList = <<>>
       THEN selectedPlayer = NullPlayer
       ELSE /\ selectedPlayer \in LoadedCodes
            /\ \A c \in LoadedCodes : Appearances(c) <= Appearances(selectedPlayer)

\* An upload loaded two replays; the code met first is not the most frequent.
C25_Witness ==
  /\ bpc = "idle"
  /\ lastBatch = "completed"
  /\ pageVersion = "current"
  /\ bKind = "upload"
  /\ Len(newReplayDataList) = 2
  /\ Appearances(newReplayDataList[1].metadata.players[1]) = 1
  /\ Appearances(selectedPlayer) = 2

\* A batch that loaded no replay leaves no player selected.
C25_WitnessNoReplay ==
  /\ bpc = "idle"
  /\ lastBatch = "completed"
  /\ pageVersion = "current"
  /\ newReplayDataList = <<>>
  /\ Len(error.files) > 0
  /\ selectedPlayer = NullPlayer

\* The earlier page's upload handler does not select a player.
C25_WitnessEarlierUpload ==
  /\ bpc = "idle"
  /\ lastBatch = "completed"
  /\ pageVersion = "earlier"
  /\ bKind = "upload"
  /\ Len(newReplayDataList) > 0
  /\ selectedPlayer = NullPlayer

\* C26: loading the sample data is all-or-nothing.  When the batch ended and
\* the fetch or the parse of one of its samples failed, replayDataList and
\* selectedPlayer are as they were when the batch started (empty and null: the
\* button is rendered only while no replay is loaded), no sample after the
\* failed one was requested, and error is "Error loading sample data.".
ParseFailed(response) ==
  \/ ~ResponseOk(response)
  \/ /\ handlerVersion = "zip"
     /\ \/ Len(response.body.results) = 0
        \/ ~HasParsed(response.body.results[1])

SampleFailed ==
  \/ lastBatch = "threw"
  \/ \E i \in 1..Len(received) : ParseFailed(received[i].response)

C26_SampleLoadAllOrNothing ==
  (bKind = "sample" /\ bpc = "idle" /\ lastBatch \in {"threw", "completed"}
     /\ SampleFailed)
    => /\ replayDataList = <<>>
       /\ selectedPlayer = NullPlayer
       /\ error = SampleError
       /\ \A i \in 1..Len(received) :
            ParseFailed(received[i].response) => Len(sent) = i

\* The endpoint answered 200 for a sample whose replay it could not parse:
\* the loader went on to the next samples and added what it had collected.
C26_Witness ==
  /\ bKind = "sample"
  /\ bpc = "idle"
  /\ lastBatch = "threw"
  /\ error = SampleError
  /\ \E i \in 1..Len(received) :
       /\ ParseFailed(received[i].response)
       /\ ResponseOk(received[i].response)
       /\ Len(sent) > i
  /\ Len(replayDataList) = Len(FilesToLoad)

\* What holds of every failure the loop itself notices: a failed fetch, or a
\* response that is not OK.
C26_AllOrNothingWhenLoopThrows ==
  (bKind = "sample" /\ bpc = "idle" /\ lastBatch = "threw"
     /\ bIdx <= Len(bFiles))
    => /\ replayDataList = <<>>
       /\ selectedPlayer = NullPlayer
       /\ error = SampleError
       /\ Len(sent) <= bIdx

\* C27: the views agree on who won.  With a player selected who took part in
\* every loaded replay on playerIndex 0 or 1 (where all views address the same
\* player), the performance summary has as many points in its Wins dataset as
\* the character breakdown, and the matchup analysis, count wins for that
\* player, and as many points in its Losses dataset as they count losses.
RECURSIVE TotalOf(_, _, _)
TotalOf(rows, keys, field) ==
  IF keys = {} THEN 0
  ELSE LET k == CHOOSE x \in keys : TRUE IN
       rows[k][field] + TotalOf(rows, keys \ {k}, field)

ViewsComparable ==
  /\ aggSelected # NullSel
  /\ aggCharacter = NoCharacter
  /\ Len(aggList) > 0
  /\ cbStats.state = "set"
  /\ muStats.state = "set"
  /\ sumStats.state = "set"
  /\ \A k \in 1..Len(aggList) :
       /\ MetaIndexOf(aggList[k], aggSelected) \in {0, 1}
       /\ aggList[k].settings.players[1].playerIndex = 0
       /\ aggList[k].settings.players[2].playerIndex = 1
  /\ sumStats.wins.count + sumStats.losses.count = Len(aggList)

C27_ViewsAgreeOnWinner ==
  ViewsComparable =>
    /\ sumStats.wins.count = TotalOf(cbStats.rows, DOMAIN cbStats.rows, "wins")
    /\ sumStats.losses.count = TotalOf(cbStats.rows, DOMAIN cbStats.rows, "losses")
    /\ sumStats.wins.count = TotalOf(muStats.rows, DOMAIN muStats.rows, "wins")
    /\ sumStats.losses.count = TotalOf(muStats.rows, DOMAIN muStats.rows, "losses")

\* One replay is loaded: the summary shows the selected player's point among
\* the Wins, the breakdown and the matchups count the game as a loss.
C27_Witness ==
  /\ ViewsComparable
  /\ Len(aggList) = 1
  /\ sumStats.wins.count = 1
  /\ TotalOf(cbStats.rows, DOMAIN cbStats.rows, "losses") = 1
  /\ TotalOf(muStats.rows, DOMAIN muStats.rows, "losses") = 1
  /\ LastStockOwner(aggList[1]) = MetaIndexOf(aggList[1], aggSelected)

\* The summary's winner is the owner of the last entry of stocks, the other
\* two views' winner is the other player: a win of one is a loss of the others.
C27_SummaryWinIsBreakdownLoss ==
  ViewsComparable =>
    /\ sumStats.wins.count = TotalOf(cbStats.rows, DOMAIN cbStats.rows, "losses")
    /\ sumStats.losses.count = TotalOf(cbStats.rows, DOMAIN cbStats.rows, "wins")
    /\ sumStats.wins.count = TotalOf(muStats.rows, DOMAIN muStats.rows, "losses")
    /\ sumStats.losses.count = TotalOf(muStats.rows, DOMAIN muStats.rows, "wins")

====
